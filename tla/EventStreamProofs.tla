-------------------------- MODULE EventStreamProofs -------------------------
(***************************************************************************)
(* Proofs about EventStream, for any number of goroutines, events and      *)
(* failures, and any limit of a read.  StreamInv is inductive: the stream  *)
(* stands at the last id that was sent, and an id that was drawn and is    *)
(* not visible yet has not been sent, so that a row which becomes visible  *)
(* below the position of the stream has been overtaken.  PagesInv is       *)
(* inductive with it: a row that the reader of the list has not seen       *)
(* stands behind the pages that he has turned.  MerkleTreeProofs is         *)
(* extended for its facts about natural numbers and ranks.                 *)
(***************************************************************************)
EXTENDS EventStream, MerkleTreeProofs

-----------------------------------------------------------------------------
(* The operators.                                                          *)

\* MaxOr0 is the greatest element of a bounded set of ids, 0 of the empty one.
LEMMA MaxOr0Greatest ==
    ASSUME NEW b \in Nat, NEW S, S \subseteq 0..b
    PROVE  /\ MaxOr0(S) \in Nat
           /\ S # {} => MaxOr0(S) \in S
           /\ S = {} => MaxOr0(S) = 0
           /\ \A i \in S : i <= MaxOr0(S)
<1>1. CASE S = {}
  BY <1>1 DEF MaxOr0
<1>2. CASE S # {}
  <2>1. \E m \in S : \A n \in S : n <= m
    BY <1>2, GreatestNatural
  <2>2. MaxOr0(S) \in S /\ \A n \in S : n <= MaxOr0(S)
    BY <1>2, <2>1 DEF MaxOr0
  <2>3. \A i \in S : i \in Nat
    OBVIOUS
  <2>4. MaxOr0(S) \in Nat
    BY <2>2, <2>3
  <2> QED
    BY <1>2, <2>2, <2>4
<1> QED
  BY <1>1, <1>2

\* The elements of a sequence.
LEMMA RangeOfSeq ==
    ASSUME NEW S, NEW s \in Seq(S)
    PROVE  /\ \A x : x \in Range(s) <=> \E i \in 1..Len(s) : x = s[i]
           /\ Range(s) \subseteq S
<1>1. DOMAIN s = 1..Len(s) /\ \A i \in 1..Len(s) : s[i] \in S
  OBVIOUS
<1> QED
  BY <1>1, Zenon DEF Range

\* ORDER BY id ASC: all the rows, each id greater than the one before.
LEMMA AscendingRows ==
    ASSUME NEW b \in Nat, NEW rows, Ids(rows) \subseteq 0..b
    PROVE  LET n == Cardinality(Ids(rows))
               a == Ascending(rows)
           IN  /\ n \in Nat
               /\ a \in Seq(rows) /\ Len(a) = n
               /\ \A i \in 1..n : a[i] \in rows /\ a[i].id \in Ids(rows)
               /\ \A i, j \in 1..n : i < j => a[i].id < a[j].id
               /\ \A r \in rows : \E i \in 1..n : a[i].id = r.id
<1> DEFINE I == Ids(rows)
           n == Cardinality(I)
           Nth(k) == CHOOSE r \in rows : Cardinality({i \in I : i <= r.id}) = k
           a == [k \in 1..n |-> Nth(k)]
<1>1. n \in Nat
  BY BoundedFinite
<1>2. a = Ascending(rows)
  BY DEF Ascending
<1>3. \A r \in rows : r.id \in I
  BY DEF Ids
<1>4. ASSUME NEW k \in 1..n PROVE Nth(k) \in rows /\ Rank(I, Nth(k).id) = k
  <2>1. \E c \in I : Rank(I, c) = k
    BY RankExists
  <2>2. \E r \in rows : Rank(I, r.id) = k
    BY <2>1 DEF Ids
  <2>3. \E r \in rows : Cardinality({i \in I : i <= r.id}) = k
    BY <2>2 DEF Rank
  <2>4. Nth(k) \in rows /\ Cardinality({i \in I : i <= Nth(k).id}) = k
    <3> HIDE DEF I
    <3> QED
      BY <2>3
  <2> QED
    BY <2>4 DEF Rank
<1>5. \A c \in I : Rank(I, c) \in 1..n
  BY RankOrder
<1>6. \A c, d \in I : c < d => Rank(I, c) < Rank(I, d)
  BY RankOrder
<1>7. \A c \in I : c \in Nat
  OBVIOUS
<1> HIDE DEF I, Nth, n
<1>8. a \in Seq(rows) /\ Len(a) = n
  BY <1>1, <1>4
<1>9. \A i \in 1..n : a[i] \in rows /\ a[i].id \in I /\ Rank(I, a[i].id) = i
  BY <1>3, <1>4
<1> HIDE DEF a
<1>10. ASSUME NEW i \in 1..n, NEW j \in 1..n, i < j PROVE a[i].id < a[j].id
  <2>1. a[i].id \in I /\ a[j].id \in I /\ Rank(I, a[i].id) = i /\ Rank(I, a[j].id) = j
    BY <1>9
  <2>2. a[i].id \in Nat /\ a[j].id \in Nat
    BY <1>7, <2>1
  <2>3. ~ (a[j].id < a[i].id)
    <3>1. a[j].id < a[i].id => j < i
      BY <1>6, <2>1
    <3> QED
      BY <1>1, <1>10, <3>1
  <2>4. a[i].id # a[j].id
    BY <1>1, <1>10, <2>1
  <2> QED
    BY <2>2, <2>3, <2>4
<1>11. ASSUME NEW r \in rows PROVE \E i \in 1..n : a[i].id = r.id
  <2>1. r.id \in I /\ Rank(I, r.id) \in 1..n
    BY <1>3, <1>5
  <2> DEFINE k == Rank(I, r.id)
  <2>2. k \in 1..n
    BY <2>1
  <2>3. a[k].id \in I /\ Rank(I, a[k].id) = k
    BY <1>9, <2>2
  <2>4. a[k].id = r.id
    <3>1. a[k].id < r.id => Rank(I, a[k].id) < Rank(I, r.id)
      BY <1>6, <2>1, <2>3
    <3>2. r.id < a[k].id => Rank(I, r.id) < Rank(I, a[k].id)
      BY <1>6, <2>1, <2>3
    <3>3. k \in Nat /\ a[k].id \in Nat /\ r.id \in Nat
      BY <1>1, <1>7, <2>1, <2>2, <2>3
    <3> QED
      BY <2>3, <3>1, <3>2, <3>3
  <2> QED
    BY <2>2, <2>4
<1> QED
  BY <1>1, <1>2, <1>8, <1>9, <1>10, <1>11 DEF I, n

\* A read of the stream returns rows after its position, each id greater than the
\* one before, and passes over none up to the last one it returns.
LEMMA EventsSinceRows ==
    ASSUME TypeOK, NEW last \in Nat
    PROVE  LET new == EventsSince(last)
           IN  /\ new \in Seq(events)
               /\ \A i \in 1..Len(new) : new[i] \in events /\ new[i].id > last
               /\ \A i, j \in 1..Len(new) : i < j => new[i].id < new[j].id
               /\ \A r \in events : (new # <<>> /\ r.id > last /\ r.id <= new[Len(new)].id)
                                       => \E i \in 1..Len(new) : new[i].id = r.id
<1> DEFINE rows == {r \in events : r.id > last}
           a == Ascending(rows)
           n == Cardinality(Ids(rows))
           m == IF Limit < n THEN Limit ELSE n
           new == SubSeq(a, 1, m)
<1>1. lastId \in Nat /\ \A r \in events : r.id \in 1..lastId
  BY DEF TypeOK
<1>2. Ids(rows) \subseteq 0..lastId
  BY <1>1 DEF Ids
<1> HIDE DEF rows
<1>3. /\ n \in Nat
      /\ a \in Seq(rows) /\ Len(a) = n
      /\ \A i \in 1..n : a[i] \in rows /\ a[i].id \in Ids(rows)
      /\ \A i, j \in 1..n : i < j => a[i].id < a[j].id
      /\ \A r \in rows : \E i \in 1..n : a[i].id = r.id
  BY <1>1, <1>2, AscendingRows
<1>4. EventsSince(last) = new
  BY <1>3 DEF EventsSince, Take, rows
<1> HIDE DEF a, n
<1>5. m \in 0..n /\ Limit \in Nat \ {0}
  BY <1>3, EventAssumption
<1> HIDE DEF m
<1>6. new \in Seq(rows) /\ Len(new) = m /\ \A i \in 1..m : new[i] = a[i]
  BY <1>3, <1>5
<1> HIDE DEF new
<1>7. rows \subseteq events /\ \A r \in rows : r.id > last
  BY DEF rows
<1>8. new \in Seq(events)
  BY <1>3, <1>6, <1>7
<1>9. \A i \in 1..m : new[i] \in events /\ new[i].id > last
  <2>1. \A i \in 1..m : i \in 1..n
    BY <1>3, <1>5
  <2> QED
    BY <1>3, <1>6, <1>7, <2>1
<1>10. \A i, j \in 1..m : i < j => new[i].id < new[j].id
  <2>1. \A i \in 1..m : i \in 1..n
    BY <1>3, <1>5
  <2> QED
    BY <1>3, <1>6, <2>1
<1>11. ASSUME NEW r \in events, new # <<>>, r.id > last, r.id <= new[m].id
       PROVE  \E i \in 1..m : new[i].id = r.id
  <2>1. m \in 1..n /\ m \in 1..m
    BY <1>3, <1>5, <1>6, <1>11
  <2>2. r \in rows
    BY <1>11 DEF rows
  <2>3. PICK i \in 1..n : a[i].id = r.id
    BY <1>3, <2>2
  <2>4. ~ (m < i)
    <3>1. m < i => a[m].id < a[i].id
      BY <1>3, <2>1
    <3>2. a[m] = new[m] /\ a[m] \in rows /\ a[i] \in rows
      BY <1>3, <1>6, <2>1
    <3>3. a[m].id \in Nat /\ a[i].id \in Nat
      BY <1>1, <1>7, <3>2
    <3> QED
      BY <1>11, <2>3, <3>1, <3>2, <3>3
  <2>5. i \in 1..m
    BY <1>3, <2>1, <2>4
  <2> QED
    BY <1>6, <2>3, <2>5
<1> QED
  BY <1>4, <1>6, <1>8, <1>9, <1>10, <1>11

-----------------------------------------------------------------------------
(* StreamInv, action by action.                                            *)

\* Initially nothing is visible and nothing is sent.
LEMMA StreamInit == Init => StreamInv
<1> SUFFICES ASSUME Init PROVE StreamInv
  OBVIOUS
<1>1. TypeOK
  BY EventAssumption DEF Init, TypeOK, Idle, NoPager
<1>2. stream.wire = <<>> /\ page = {} /\ events = {} /\ stream.lastEventID = 0
  BY DEF Init
<1>3. StreamComplete
  BY <1>1, <1>2 DEF StreamComplete
<1>4. Sent = {}
  BY <1>2 DEF Sent, Range
<1>5. \A e \in Emitters : emitter[e].at = "idle"
  BY DEF Init, Idle
<1> QED
  BY <1>2, <1>3, <1>4, <1>5 DEF StreamInv

\* The steps that leave the table, the stream and the page alone.
LEMMA StreamQuiet ==
    ASSUME StreamInv, lastId' \in Nat, lastId' >= lastId, clock' \in 0..MaxEvents, clock' >= clock,
           UNCHANGED <<events, overtaken, stream, page>>,
           DOMAIN pager' = DOMAIN NoPager /\ pager'.at \in {"count", "select", "end"},
           (emitter \in [Emitters -> [at : {"idle", "insert", "commit"}, id : 0..lastId, created : 0..clock]])',
           \A e \in Emitters : emitter'[e].at # "idle" => emitter'[e].created > 0,
           \A e \in Emitters : emitter'[e].at = "commit" =>
               \/ emitter'[e] = emitter[e]
               \/ /\ emitter'[e].id = lastId + 1 /\ lastId' = lastId + 1
                  /\ \A f \in Emitters \ {e} : emitter'[f] = emitter[f]
    PROVE  StreamInv'
<1>1. TypeOK
  BY DEF StreamInv, StreamComplete
<1>2. lastId \in Nat /\ clock \in Nat /\ 1..lastId \subseteq 1..lastId' /\ 1..clock \subseteq 1..clock'
  BY <1>1 DEF TypeOK
<1>3. TypeOK'
  <2>1. \A r \in events : r.id \in 1..lastId' /\ r.created \in 1..clock'
    BY <1>1, <1>2 DEF TypeOK
  <2>2. \A r, q \in events : r.id = q.id => r = q
    BY <1>1 DEF TypeOK
  <2>3. stream \in [lastEventID : 0..lastId', wire : Seq(1..lastId')]
    <3>1. stream \in [lastEventID : 0..lastId, wire : Seq(1..lastId)]
      BY <1>1 DEF TypeOK
    <3>2. stream.wire \in Seq(1..lastId')
      BY <1>2, <3>1
    <3>3. stream.lastEventID \in 0..lastId'
      BY <1>2, <3>1
    <3> QED
      BY <3>1, <3>2, <3>3
  <2>4. page \subseteq 1..lastId'
    BY <1>1, <1>2 DEF TypeOK
  <2> QED
    BY <2>1, <2>2, <2>3, <2>4 DEF TypeOK, NoPager
<1>4. StreamComplete'
  BY <1>3 DEF StreamInv, StreamComplete
<1>5. Sent' = Sent /\ Ids(events)' = Ids(events)
  BY DEF Sent, Ids
<1>6. \A i \in Ids(events) \cup Sent : i \in 1..lastId
  <2>1. \A i \in Ids(events) : i \in 1..lastId
    BY <1>1 DEF TypeOK, Ids
  <2>2. stream.wire \in Seq(1..lastId)
    BY <1>1 DEF TypeOK
  <2>3. \A i \in Range(stream.wire) : i \in 1..lastId
    BY <2>2, RangeOfSeq
  <2>4. \A i \in page : i \in 1..lastId
    BY <1>1 DEF TypeOK
  <2> QED
    BY <2>1, <2>3, <2>4 DEF Sent
<1>7. ASSUME NEW e \in Emitters, emitter'[e].at = "commit"
      PROVE  /\ emitter'[e].id > 0
             /\ emitter'[e].id \notin Ids(events) \cup Sent
             /\ \A f \in Emitters \ {e} : emitter'[f].at = "commit" => emitter'[f].id # emitter'[e].id
  <2>1. \A f \in Emitters : emitter[f].id \in 0..lastId
    BY <1>1 DEF TypeOK
  <2>2. CASE emitter'[e] = emitter[e]
    <3>1. /\ emitter'[e].id > 0
          /\ emitter'[e].id \notin Ids(events) \cup Sent
          /\ \A f \in Emitters \ {e} : emitter[f].at = "commit" => emitter[f].id # emitter[e].id
      BY <1>7, <2>2 DEF StreamInv
    <3>2. ASSUME NEW f \in Emitters \ {e}, emitter'[f].at = "commit" PROVE emitter'[f].id # emitter'[e].id
      <4>1. CASE emitter'[f] = emitter[f]
        BY <2>2, <3>1, <3>2, <4>1
      <4>2. CASE emitter'[f].id = lastId + 1
        BY <1>2, <2>1, <2>2, <4>2
      <4> QED
        BY <3>2, <4>1, <4>2
    <3> QED
      BY <3>1, <3>2
  <2>3. CASE emitter'[e].id = lastId + 1 /\ \A f \in Emitters \ {e} : emitter'[f] = emitter[f]
    <3>1. emitter'[e].id > 0 /\ emitter'[e].id \notin 1..lastId
      BY <1>2, <2>3
    <3>2. \A f \in Emitters \ {e} : emitter'[f].id # emitter'[e].id
      BY <1>2, <2>1, <2>3
    <3> QED
      BY <1>6, <3>1, <3>2
  <2> QED
    BY <1>7, <2>2, <2>3
<1>8. \A i \in Sent : i <= stream.lastEventID
  BY DEF StreamInv
<1>9. stream.lastEventID # 0 => stream.lastEventID \in Sent
  BY DEF StreamInv
<1> QED
  BY <1>4, <1>5, <1>7, <1>8, <1>9 DEF StreamInv

\* EmitEvent up to its commit, and its failures.
LEMMA StreamEmit ==
    ASSUME StreamInv, NEW e \in Emitters, Begin(e) \/ Insert(e) \/ EmitFails(e)
    PROVE  StreamInv'
<1>1. TypeOK /\ \A f \in Emitters : emitter[f].at # "idle" => emitter[f].created > 0
  BY DEF StreamInv, StreamComplete
<1>2. /\ lastId \in Nat /\ clock \in 0..MaxEvents /\ MaxEvents \in Nat
      /\ DOMAIN pager = DOMAIN NoPager /\ pager.at \in {"count", "select", "end"}
      /\ emitter \in [Emitters -> [at : {"idle", "insert", "commit"}, id : 0..lastId, created : 0..clock]]
  BY <1>1, EventAssumption DEF TypeOK
<1>3. CASE Begin(e)
  <2>1. /\ clock' = clock + 1 /\ clock' \in 0..MaxEvents
        /\ UNCHANGED <<lastId, events, overtaken, stream, page, pager>>
    BY <1>2, <1>3 DEF Begin
  <2>2. emitter' = [emitter EXCEPT ![e] = [at |-> "insert", id |-> 0, created |-> clock + 1]]
    BY <1>3 DEF Begin
  <2>3. emitter' \in [Emitters -> [at : {"idle", "insert", "commit"}, id : 0..lastId, created : 0..clock']]
    BY <1>2, <2>1, <2>2
  <2>4. \A f \in Emitters : emitter'[f].at # "idle" => emitter'[f].created > 0
    BY <1>1, <1>2, <2>2
  <2>5. \A f \in Emitters : emitter'[f].at = "commit" => emitter'[f] = emitter[f]
    BY <1>2, <2>2
  <2> QED
    BY <1>2, <2>1, <2>3, <2>4, <2>5, StreamQuiet
<1>4. CASE Insert(e)
  <2>1. /\ lastId' = lastId + 1 /\ emitter[e].at = "insert"
        /\ UNCHANGED <<clock, events, overtaken, stream, page, pager>>
    BY <1>4 DEF Insert
  <2>2. emitter' = [emitter EXCEPT ![e] = [emitter[e] EXCEPT !.at = "commit", !.id = lastId + 1]]
    BY <1>2, <1>4 DEF Insert
  <2>3. emitter' \in [Emitters -> [at : {"idle", "insert", "commit"}, id : 0..lastId', created : 0..clock]]
    <3>1. 0..lastId \subseteq 0..lastId' /\ lastId + 1 \in 0..lastId'
      BY <1>2, <2>1
    <3> DEFINE Rows == [at : {"idle", "insert", "commit"}, id : 0..lastId', created : 0..clock]
    <3>2. \A f \in Emitters : emitter[f] \in Rows
      BY <1>2, <3>1
    <3>3. [emitter[e] EXCEPT !.at = "commit", !.id = lastId + 1] \in Rows
      BY <3>1, <3>2
    <3> HIDE DEF Rows
    <3>4. emitter' \in [Emitters -> Rows]
      BY <1>2, <2>2, <3>2, <3>3
    <3> QED
      BY <3>4 DEF Rows
  <2>4. \A f \in Emitters : emitter'[f].at # "idle" => emitter'[f].created > 0
    BY <1>1, <1>2, <2>1, <2>2
  <2>5. \A f \in Emitters \ {e} : emitter'[f] = emitter[f]
    BY <1>2, <2>2
  <2>6. emitter'[e].id = lastId + 1
    BY <1>2, <2>2
  <2> QED
    BY <1>2, <2>1, <2>3, <2>4, <2>5, <2>6, StreamQuiet
<1>5. CASE EmitFails(e)
  <2>1. /\ UNCHANGED <<clock, lastId, events, overtaken, stream, page, pager>>
        /\ emitter' = [emitter EXCEPT ![e] = Idle]
    BY <1>5 DEF EmitFails
  <2>2. emitter' \in [Emitters -> [at : {"idle", "insert", "commit"}, id : 0..lastId, created : 0..clock]]
    BY <1>2, <2>1 DEF Idle
  <2>3. \A f \in Emitters : emitter'[f].at # "idle" => emitter'[f] = emitter[f]
    BY <1>2, <2>1 DEF Idle
  <2> QED
    BY <1>1, <1>2, <2>1, <2>2, <2>3, StreamQuiet
<1> QED
  BY <1>3, <1>4, <1>5

\* The reader of the list.
LEMMA StreamList ==
    ASSUME StreamInv, CountEvents \/ PaginatedEvents \/ UNCHANGED vars
    PROVE  StreamInv'
<1>1. TypeOK /\ \A f \in Emitters : emitter[f].at # "idle" => emitter[f].created > 0
  BY DEF StreamInv, StreamComplete
<1>2. /\ lastId \in Nat /\ clock \in 0..MaxEvents
      /\ DOMAIN pager = DOMAIN NoPager /\ pager.at \in {"count", "select", "end"}
      /\ emitter \in [Emitters -> [at : {"idle", "insert", "commit"}, id : 0..lastId, created : 0..clock]]
  BY <1>1 DEF TypeOK
<1>3. UNCHANGED <<clock, lastId, events, emitter, overtaken, stream, page>>
  BY DEF CountEvents, PaginatedEvents, vars
<1>4. DOMAIN pager' = DOMAIN NoPager /\ pager'.at \in {"count", "select", "end"}
  BY <1>2 DEF CountEvents, PaginatedEvents, vars, NoPager
<1> QED
  BY <1>1, <1>2, <1>3, <1>4, StreamQuiet

\* A row becomes visible.  Below the position of the stream, it is overtaken by
\* the id at which the stream stands.
LEMMA StreamCommit ==
    ASSUME StreamInv, NEW e \in Emitters, Commit(e)
    PROVE  StreamInv'
<1> DEFINE row == [id |-> emitter[e].id, created |-> emitter[e].created]
<1>1. TypeOK /\ \A f \in Emitters : emitter[f].at # "idle" => emitter[f].created > 0
  BY DEF StreamInv, StreamComplete
<1>2. /\ lastId \in Nat /\ clock \in Nat
      /\ DOMAIN pager = DOMAIN NoPager /\ pager.at \in {"count", "select", "end"}
      /\ emitter \in [Emitters -> [at : {"idle", "insert", "commit"}, id : 0..lastId, created : 0..clock]]
  BY <1>1, EventAssumption DEF TypeOK
<1>3. /\ emitter[e].at = "commit"
      /\ events' = events \cup {row}
      /\ overtaken' = overtaken \cup {i \in {row.id} : \E j \in Ids(events) \cup page \cup Range(stream.wire) : j > i}
      /\ emitter' = [emitter EXCEPT ![e] = Idle]
      /\ UNCHANGED <<clock, lastId, stream, page>>
  BY DEF Commit
<1>4. /\ row.id \in 1..lastId /\ row.created \in 1..clock
      /\ row.id \notin Ids(events) \cup Sent
      /\ \A f \in Emitters \ {e} : emitter[f].at = "commit" => emitter[f].id # row.id
  <2>1. emitter[e].id > 0 /\ emitter[e].id \notin Ids(events) \cup Sent
    BY <1>3 DEF StreamInv
  <2>2. \A f \in Emitters \ {e} : emitter[f].at = "commit" => emitter[f].id # row.id
    BY <1>3 DEF StreamInv
  <2>3. emitter[e].id \in 1..lastId /\ emitter[e].created \in 1..clock
    BY <1>1, <1>2, <1>3, <2>1
  <2> QED
    BY <2>1, <2>2, <2>3
<1>5. DOMAIN pager' = DOMAIN NoPager /\ pager'.at \in {"count", "select", "end"}
  BY <1>2 DEF Commit, NoPager
<1>6. TypeOK'
  <2>1. \A r \in events' : r.id \in 1..lastId /\ r.created \in 1..clock
    BY <1>1, <1>3, <1>4 DEF TypeOK
  <2>2. \A r \in events : r.id # row.id
    BY <1>4 DEF Ids
  <2>3. \A r, q \in events' : r.id = q.id => r = q
    BY <1>1, <1>3, <2>2 DEF TypeOK
  <2>4. emitter' \in [Emitters -> [at : {"idle", "insert", "commit"}, id : 0..lastId, created : 0..clock]]
    BY <1>2, <1>3 DEF Idle
  <2> QED
    BY <1>1, <1>3, <1>5, <2>1, <2>3, <2>4 DEF TypeOK, NoPager
<1>7. ASSUME NEW r \in events', r.id <= stream.lastEventID
      PROVE  r.id \in page \cup Range(stream.wire) \cup overtaken'
  <2>1. CASE r \in events
    BY <1>3, <1>7, <2>1 DEF StreamInv, StreamComplete
  <2>2. CASE r = row
    <3>1. stream.lastEventID \in 0..lastId
      BY <1>1 DEF TypeOK
    <3>2. stream.lastEventID \in Sent
      BY <1>2, <1>4, <1>7, <2>2, <3>1 DEF StreamInv
    <3>3. stream.lastEventID > row.id
      BY <1>2, <1>4, <1>7, <2>2, <3>1, <3>2
    <3>4. \E j \in Ids(events) \cup page \cup Range(stream.wire) : j > row.id
      BY <3>2, <3>3 DEF Sent
    <3> HIDE DEF row
    <3>5. row.id \in overtaken'
      BY <1>3, <3>4
    <3> QED
      BY <2>2, <3>5
  <2> QED
    BY <1>3, <2>1, <2>2
<1>8. StreamComplete'
  <2>1. \A i \in 1..Len(stream.wire) :
          /\ stream.wire[i] > MaxOr0(page)
          /\ \A j \in 1..(i - 1) : stream.wire[j] < stream.wire[i]
    BY DEF StreamInv, StreamComplete
  <2> QED
    BY <1>3, <1>6, <1>7, <2>1 DEF StreamComplete
<1>9. Sent' = Sent /\ Ids(events)' = Ids(events) \cup {row.id}
  <2>1. Sent' = Sent
    BY <1>3 DEF Sent
  <2> HIDE DEF row
  <2>2. Ids(events)' = Ids(events) \cup {row.id}
    BY <1>3 DEF Ids
  <2> QED
    BY <2>1, <2>2
<1>10. ASSUME NEW f \in Emitters, emitter'[f].at # "idle"
       PROVE  f # e /\ emitter'[f] = emitter[f]
  BY <1>2, <1>3, <1>10 DEF Idle
<1> HIDE DEF row
<1>11. ASSUME NEW f \in Emitters, emitter'[f].at = "commit"
       PROVE  /\ emitter'[f].id > 0
              /\ emitter'[f].id \notin Ids(events)' \cup Sent'
              /\ \A g \in Emitters \ {f} : emitter'[g].at = "commit" => emitter'[g].id # emitter'[f].id
  <2>1. f # e /\ emitter'[f] = emitter[f] /\ emitter[f].at = "commit"
    BY <1>10, <1>11
  <2>2. /\ emitter[f].id > 0 /\ emitter[f].id \notin Ids(events) \cup Sent
        /\ \A g \in Emitters \ {f} : emitter[g].at = "commit" => emitter[g].id # emitter[f].id
    BY <2>1 DEF StreamInv
  <2>3. emitter[f].id # row.id
    BY <1>4, <2>1
  <2>4. \A g \in Emitters \ {f} : emitter'[g].at = "commit" => emitter'[g] = emitter[g]
    BY <1>10
  <2> QED
    BY <1>9, <2>1, <2>2, <2>3, <2>4
<1>12. \A f \in Emitters : emitter'[f].at # "idle" => emitter'[f].created > 0
  BY <1>1, <1>10
<1>13. /\ \A i \in Sent : i <= stream.lastEventID
       /\ stream.lastEventID # 0 => stream.lastEventID \in Sent
  BY DEF StreamInv
<1> QED
  BY <1>3, <1>8, <1>9, <1>11, <1>12, <1>13 DEF StreamInv

\* Housekeeping only deletes rows.
LEMMA StreamPrune ==
    ASSUME StreamInv, NEW cutoff, PruneOldEvents(cutoff)
    PROVE  StreamInv'
<1>1. TypeOK
  BY DEF StreamInv, StreamComplete
<1>2. /\ events' \subseteq events
      /\ UNCHANGED <<clock, lastId, emitter, overtaken, stream, page>>
  BY DEF PruneOldEvents
<1>3. DOMAIN pager' = DOMAIN NoPager /\ pager'.at \in {"count", "select", "end"}
  BY <1>1 DEF PruneOldEvents, TypeOK, NoPager
<1>4. TypeOK'
  BY <1>1, <1>2, <1>3 DEF TypeOK, NoPager
<1>5. StreamComplete'
  BY <1>2, <1>4 DEF StreamInv, StreamComplete
<1>6. Sent' = Sent /\ Ids(events)' \subseteq Ids(events)
  BY <1>2 DEF Sent, Ids
<1>7. \A e \in Emitters : emitter[e].at = "commit" =>
          /\ emitter[e].id > 0
          /\ emitter[e].id \notin Ids(events)' \cup Sent'
          /\ \A f \in Emitters \ {e} : emitter[f].at = "commit" => emitter[f].id # emitter[e].id
  BY <1>6 DEF StreamInv
<1> QED
  BY <1>2, <1>5, <1>6, <1>7 DEF StreamInv

\* A step that only moves ids between the table, the connection and the page, or
\* drops them: what StreamInv says of the goroutines stays.
LEMMA StreamMoves ==
    ASSUME StreamInv, UNCHANGED <<clock, lastId, events, emitter, overtaken, pager>>,
           (stream \in [lastEventID : 0..lastId, wire : Seq(1..lastId)])',
           (page \subseteq 1..lastId)',
           Sent' \subseteq Sent \cup Ids(events),
           (\A i \in 1..Len(stream.wire) :
              /\ stream.wire[i] > MaxOr0(page)
              /\ \A j \in 1..(i - 1) : stream.wire[j] < stream.wire[i])',
           \A r \in events : r.id <= stream'.lastEventID => r.id \in Sent' \cup overtaken,
           \A i \in Sent' : i <= stream'.lastEventID,
           stream'.lastEventID # 0 => stream'.lastEventID \in Sent'
    PROVE  StreamInv'
<1>1. TypeOK
  BY DEF StreamInv, StreamComplete
<1>2. TypeOK'
  BY <1>1 DEF TypeOK, NoPager
<1>3. StreamComplete'
  BY <1>2 DEF StreamComplete, Sent
<1>4. Ids(events)' = Ids(events)
  BY DEF Ids
<1>5. \A e \in Emitters : emitter[e].at # "idle" => emitter[e].created > 0
  BY DEF StreamInv
<1>6. \A e \in Emitters : emitter[e].at = "commit" =>
          /\ emitter[e].id > 0
          /\ emitter[e].id \notin Ids(events)' \cup Sent'
          /\ \A f \in Emitters \ {e} : emitter[f].at = "commit" => emitter[f].id # emitter[e].id
  BY <1>4 DEF StreamInv
<1> QED
  BY <1>3, <1>5, <1>6 DEF StreamInv

\* Facts of a stream under StreamInv.
LEMMA StreamFacts ==
    ASSUME StreamInv
    PROVE  /\ lastId \in Nat
           /\ stream \in [lastEventID : 0..lastId, wire : Seq(1..lastId)]
           /\ page \subseteq 1..lastId /\ page \subseteq 0..lastId
           /\ \A x : x \in Sent <=> (x \in page \/ \E i \in 1..Len(stream.wire) : x = stream.wire[i])
           /\ \A i \in Sent : i \in 1..lastId /\ i <= stream.lastEventID
           /\ \A i \in 1..Len(stream.wire) :
                /\ stream.wire[i] \in Sent
                /\ stream.wire[i] > MaxOr0(page)
                /\ \A j \in 1..(i - 1) : stream.wire[j] < stream.wire[i]
           /\ \A r \in events : r.id \in 1..lastId
           /\ \A r \in events : r.id <= stream.lastEventID => r.id \in Sent \cup overtaken
<1>1. TypeOK
  BY DEF StreamInv, StreamComplete
<1>2. /\ lastId \in Nat
      /\ stream \in [lastEventID : 0..lastId, wire : Seq(1..lastId)]
      /\ page \subseteq 1..lastId /\ page \subseteq 0..lastId
      /\ \A r \in events : r.id \in 1..lastId
  BY <1>1 DEF TypeOK
<1>3. stream.wire \in Seq(1..lastId)
  BY <1>2
<1>4. \A x : x \in Sent <=> (x \in page \/ \E i \in 1..Len(stream.wire) : x = stream.wire[i])
  BY <1>3, RangeOfSeq DEF Sent
<1>5. \A i \in Sent : i \in 1..lastId
  <2>1. Range(stream.wire) \subseteq 1..lastId
    BY <1>3, RangeOfSeq
  <2> QED
    BY <1>2, <2>1 DEF Sent
<1>6. \A i \in Sent : i <= stream.lastEventID
  BY DEF StreamInv
<1>7. \A i \in 1..Len(stream.wire) :
         /\ stream.wire[i] > MaxOr0(page)
         /\ \A j \in 1..(i - 1) : stream.wire[j] < stream.wire[i]
  BY DEF StreamInv, StreamComplete
<1>8. \A r \in events : r.id <= stream.lastEventID => r.id \in Sent \cup overtaken
  BY DEF StreamInv, StreamComplete, Sent
<1> QED
  BY <1>2, <1>4, <1>5, <1>6, <1>7, <1>8

\* A tick of the stream.
LEMMA StreamPoll ==
    ASSUME StreamInv, PollEvents
    PROVE  StreamInv'
<1> DEFINE w == stream.wire
           last == stream.lastEventID
           new == EventsSince(last)
           k == Len(new)
           ids == [i \in 1..k |-> new[i].id]
<1>1. TypeOK
  BY DEF StreamInv, StreamComplete
<1>2. /\ lastId \in Nat /\ last \in 0..lastId /\ w \in Seq(1..lastId)
      /\ \A r \in events : r.id \in 1..lastId
  BY StreamFacts
<1>3. /\ new \in Seq(events)
      /\ \A i \in 1..k : new[i] \in events /\ new[i].id > last
      /\ \A i, j \in 1..k : i < j => new[i].id < new[j].id
      /\ \A r \in events : (new # <<>> /\ r.id > last /\ r.id <= new[k].id)
                              => \E i \in 1..k : new[i].id = r.id
  <2>1. last \in Nat
    BY <1>2
  <2> HIDE DEF last
  <2> QED
    BY <1>1, <2>1, EventsSinceRows
<1>4. /\ new # <<>>
      /\ stream' = [lastEventID |-> new[k].id, wire |-> w \o ids]
      /\ UNCHANGED <<clock, lastId, events, emitter, overtaken, page, pager>>
  BY DEF PollEvents
<1> HIDE DEF new
<1>5. k \in Nat /\ k \in 1..k
  BY <1>3, <1>4
<1>6. ids \in Seq(1..lastId) /\ Len(ids) = k /\ \A i \in 1..k : ids[i] = new[i].id
  BY <1>2, <1>3, <1>5
<1> HIDE DEF k, ids
<1> DEFINE v == w \o ids
<1>7. /\ v \in Seq(1..lastId) /\ Len(v) = Len(w) + k /\ Len(w) \in Nat
      /\ \A i \in 1..Len(w) : v[i] = w[i]
      /\ \A i \in 1..k : v[Len(w) + i] = ids[i]
      /\ \A i \in (Len(w) + 1)..Len(v) : i - Len(w) \in 1..k /\ v[i] = ids[i - Len(w)]
  <2> HIDE DEF w
  <2>1. v \in Seq(1..lastId) /\ Len(v) = Len(w) + k /\ Len(w) \in Nat
    <3>1. w \in Seq(1..lastId) /\ ids \in Seq(1..lastId) /\ Len(ids) = k
      BY <1>2, <1>6
    <3>2. Len(w) \in Nat /\ Len(w \o ids) = Len(w) + Len(ids)
      BY <3>1
    <3>3. w \o ids \in Seq(1..lastId)
      BY <3>1
    <3> QED
      BY <3>1, <3>2, <3>3
  <2>2. \A i \in 1..Len(w) : v[i] = w[i]
    BY <1>2, <1>5, <1>6
  <2>3. ASSUME NEW i \in 1..k PROVE v[Len(w) + i] = ids[i]
    BY <1>2, <1>5, <1>6, <2>1
  <2>4. ASSUME NEW i \in (Len(w) + 1)..Len(v) PROVE i - Len(w) \in 1..k /\ v[i] = ids[i - Len(w)]
    BY <1>2, <1>5, <1>6, <2>1
  <2> QED
    BY <2>1, <2>2, <2>3, <2>4
<1>8. \A x : x \in Sent' <=> (x \in Sent \/ \E i \in 1..k : x = ids[i])
  <2>1. stream'.wire = v /\ page' = page
    BY <1>4
  <2>2. \A x : x \in Range(v) <=> \E i \in 1..Len(v) : x = v[i]
    BY <1>7, RangeOfSeq
  <2>3. \A x : x \in Range(w) <=> \E i \in 1..Len(w) : x = w[i]
    BY <1>2, RangeOfSeq
  <2> HIDE DEF v, w
  <2>4. \A x : (\E i \in 1..Len(v) : x = v[i]) <=>
               ((\E i \in 1..Len(w) : x = w[i]) \/ \E i \in 1..k : x = ids[i])
    <3>1. ASSUME NEW i \in 1..Len(v)
          PROVE  (\E j \in 1..Len(w) : v[i] = w[j]) \/ \E j \in 1..k : v[i] = ids[j]
      <4>1. CASE i <= Len(w)
        BY <1>5, <1>7, <4>1
      <4>2. CASE ~(i <= Len(w))
        <5>1. i \in (Len(w) + 1)..Len(v)
          BY <1>5, <1>7, <4>2
        <5> QED
          BY <1>7, <5>1
      <4> QED
        BY <4>1, <4>2
    <3>2. ASSUME NEW j \in 1..Len(w) PROVE j \in 1..Len(v) /\ v[j] = w[j]
      BY <1>5, <1>7
    <3>3. ASSUME NEW j \in 1..k PROVE (Len(w) + j) \in 1..Len(v) /\ v[Len(w) + j] = ids[j]
      BY <1>5, <1>7
    <3> QED
      BY <3>1, <3>2, <3>3
  <2>5. Sent' = page \cup Range(v) /\ Sent = page \cup Range(w)
    BY <2>1 DEF Sent, w
  <2> QED
    BY <2>2, <2>3, <2>4, <2>5
<1>9. (stream \in [lastEventID : 0..lastId, wire : Seq(1..lastId)])'
  <2>1. new[k].id \in 0..lastId
    BY <1>2, <1>3, <1>5
  <2> HIDE DEF v, w
  <2> QED
    BY <1>4, <1>7, <2>1 DEF v
<1>10. Sent' \subseteq Sent \cup Ids(events)
  <2>1. \A i \in 1..k : ids[i] \in Ids(events)
    BY <1>3, <1>6 DEF Ids
  <2> QED
    BY <1>8, <2>1
<1>11. \A i \in 1..k : ids[i] \in Nat /\ ids[i] > last /\ ids[i] <= new[k].id
  <2>1. ASSUME NEW i \in 1..k PROVE new[i].id \in Nat /\ new[i].id > last /\ new[i].id <= new[k].id
    <3>1. new[i].id \in Nat /\ new[k].id \in Nat /\ new[i].id > last
      BY <1>2, <1>3, <1>5
    <3>2. i < k => new[i].id < new[k].id
      BY <1>3, <1>5
    <3>3. i < k \/ i = k
      BY <1>5
    <3> QED
      BY <3>1, <3>2, <3>3
  <2> QED
    BY <1>6, <2>1
<1>12. ASSUME NEW i \in 1..Len(v)
       PROVE  /\ v[i] > MaxOr0(page)
              /\ \A j \in 1..(i - 1) : v[j] < v[i]
  <2>1. CASE i <= Len(w)
    <3>1. i \in 1..Len(w) /\ \A j \in 1..(i - 1) : j \in 1..Len(w)
      BY <1>5, <1>7, <2>1
    <3>2. w[i] > MaxOr0(page) /\ \A j \in 1..(i - 1) : w[j] < w[i]
      BY <3>1, StreamFacts
    <3> HIDE DEF w, v
    <3> QED
      BY <1>7, <3>1, <3>2
  <2>2. CASE ~(i <= Len(w))
    <3> DEFINE p == i - Len(w)
    <3>1. p \in 1..k /\ v[i] = ids[p]
      <4> HIDE DEF v, w
      <4>1. i \in (Len(w) + 1)..Len(v)
        BY <1>5, <1>7, <2>2
      <4> QED
        BY <1>7, <4>1
    <3>2. v[i] \in Nat /\ v[i] > last
      BY <1>11, <3>1
    <3>3. MaxOr0(page) <= last /\ MaxOr0(page) \in Nat
      <4>1. page \subseteq 0..lastId /\ \A x \in page : x <= last
        BY StreamFacts
      <4>2. MaxOr0(page) \in Nat /\ (page = {} => MaxOr0(page) = 0) /\ (page # {} => MaxOr0(page) \in page)
        BY <1>2, <4>1, MaxOr0Greatest
      <4> QED
        BY <1>2, <4>1, <4>2
    <3>4. ASSUME NEW j \in 1..(i - 1) PROVE v[j] < v[i]
      <4>1. CASE j <= Len(w)
        <5>1. j \in 1..Len(w) /\ w[j] \in Sent
          BY <1>7, <4>1, StreamFacts
        <5>2. w[j] \in Nat /\ w[j] <= last
          BY <5>1, StreamFacts
        <5>3. v[j] = w[j]
          BY <1>7, <5>1
        <5> HIDE DEF w, v, last
        <5> QED
          BY <1>2, <3>2, <5>2, <5>3
      <4>2. CASE ~(j <= Len(w))
        <5> HIDE DEF w, v
        <5>1. j \in (Len(w) + 1)..Len(v)
          BY <1>5, <1>7, <3>4, <4>2
        <5> DEFINE q == j - Len(w)
        <5>2. q \in 1..k /\ v[j] = ids[q]
          BY <1>7, <5>1
        <5>3. q < p
          BY <1>7, <3>4, <5>1
        <5>4. new[q].id < new[p].id
          <6> HIDE DEF q, p
          <6> QED
            BY <1>3, <3>1, <5>2, <5>3
        <5> HIDE DEF q, p
        <5> QED
          BY <1>6, <3>1, <5>2, <5>4
      <4> QED
        BY <4>1, <4>2
    <3> QED
      BY <1>2, <3>2, <3>3, <3>4, SMTT(30)
  <2> QED
    BY <2>1, <2>2
<1>13. (\A i \in 1..Len(stream.wire) :
          /\ stream.wire[i] > MaxOr0(page)
          /\ \A j \in 1..(i - 1) : stream.wire[j] < stream.wire[i])'
  <2>1. stream'.wire = v /\ page' = page
    BY <1>4
  <2> HIDE DEF v
  <2> QED
    BY <1>12, <2>1
<1>14. ASSUME NEW r \in events, r.id <= stream'.lastEventID
       PROVE  r.id \in Sent' \cup overtaken
  <2>1. CASE r.id <= last
    BY <1>8, <2>1, StreamFacts
  <2>2. CASE ~(r.id <= last)
    <3>1. r.id > last /\ r.id <= new[k].id
      BY <1>2, <1>4, <1>14, <2>2
    <3>2. PICK i \in 1..k : new[i].id = r.id
      BY <1>3, <1>4, <3>1
    <3> QED
      BY <1>6, <1>8, <3>2
  <2> QED
    BY <2>1, <2>2
<1>15. \A i \in Sent' : i <= stream'.lastEventID
  <2>1. stream'.lastEventID = new[k].id /\ new[k].id \in Nat /\ new[k].id > last
    BY <1>2, <1>3, <1>4, <1>5
  <2>2. \A i \in Sent : i \in Nat /\ i <= last
    BY StreamFacts
  <2> QED
    BY <1>2, <1>8, <1>11, <2>1, <2>2
<1>16. stream'.lastEventID \in Sent'
  BY <1>4, <1>5, <1>6, <1>8
<1> QED
  <2>1. (page \subseteq 1..lastId)'
    BY <1>4, StreamFacts
  <2> HIDE DEF v
  <2> QED
    BY <1>4, <1>9, <1>10, <1>13, <1>14, <1>15, <1>16, <2>1, StreamMoves

\* The browser receives the next event: the ids behind it are greater.
LEMMA StreamReceive ==
    ASSUME StreamInv, Receive
    PROVE  StreamInv'
<1> DEFINE w == stream.wire
           v == Tail(w)
           x == w[1]
<1>1. /\ lastId \in Nat /\ w \in Seq(1..lastId) /\ stream.lastEventID \in 0..lastId
      /\ page \subseteq 1..lastId
  BY StreamFacts
<1>2. /\ w # <<>>
      /\ page' = page \cup {x}
      /\ stream' = [stream EXCEPT !.wire = v]
      /\ UNCHANGED <<clock, lastId, events, emitter, overtaken, pager>>
  BY DEF Receive
<1>3. stream' = [lastEventID |-> stream.lastEventID, wire |-> v]
  BY <1>2, StreamFacts
<1>4. \A i \in 1..Len(w) : /\ w[i] \in 1..lastId /\ w[i] \in Sent
                           /\ w[i] > MaxOr0(page)
                           /\ \A j \in 1..(i - 1) : w[j] < w[i]
  BY StreamFacts
<1>5. Sent = page \cup Range(w) /\ Sent' = page \cup {x} \cup Range(v)
  BY <1>2, <1>3 DEF Sent
<1> HIDE DEF w
<1>6. /\ v \in Seq(1..lastId) /\ Len(w) \in Nat /\ 1 \in 1..Len(w) /\ Len(v) = Len(w) - 1
      /\ \A i \in 1..Len(v) : i + 1 \in 1..Len(w) /\ v[i] = w[i + 1]
  BY <1>1, <1>2
<1> HIDE DEF v
<1>7. Sent' = Sent
  <2>1. \A y : y \in Range(w) <=> \E i \in 1..Len(w) : y = w[i]
    BY <1>1, RangeOfSeq
  <2>2. \A y : y \in Range(v) <=> \E i \in 1..Len(v) : y = v[i]
    BY <1>6, RangeOfSeq
  <2>3. ASSUME NEW i \in 1..Len(w) PROVE w[i] = x \/ \E j \in 1..Len(v) : w[i] = v[j]
    <3>1. CASE i = 1
      BY <3>1
    <3>2. CASE i # 1
      <4>1. i - 1 \in 1..Len(v) /\ (i - 1) + 1 = i
        BY <1>6, <3>2
      <4>2. v[i - 1] = w[i]
        BY <1>6, <4>1
      <4> QED
        BY <4>1, <4>2
    <3> QED
      BY <3>1, <3>2
  <2>4. x \in Range(w)
    BY <1>6, <2>1
  <2>5. Range(w) \subseteq {x} \cup Range(v)
    BY <2>1, <2>2, <2>3
  <2>6. Range(v) \subseteq Range(w)
    BY <1>6, <2>1, <2>2
  <2> QED
    BY <1>5, <2>4, <2>5, <2>6
<1>8. x \in 1..lastId /\ x > MaxOr0(page)
  BY <1>4, <1>6
<1>9. MaxOr0(page \cup {x}) = x
  <2> HIDE DEF x
  <2>1. page \subseteq 0..lastId /\ page \cup {x} \subseteq 0..lastId
    BY <1>1, <1>8
  <2>2. MaxOr0(page) \in Nat /\ \A i \in page : i <= MaxOr0(page)
    BY <1>1, <2>1, MaxOr0Greatest
  <2>3. /\ MaxOr0(page \cup {x}) \in page \cup {x}
        /\ \A i \in page \cup {x} : i <= MaxOr0(page \cup {x})
    BY <1>1, <2>1, MaxOr0Greatest
  <2>4. x \in Nat /\ \A i \in page : i \in Nat
    BY <1>1, <1>8
  <2> QED
    BY <1>8, <2>2, <2>3, <2>4
<1>10. ASSUME NEW i \in 1..Len(v)
       PROVE  v[i] > x /\ \A j \in 1..(i - 1) : v[j] < v[i]
  <2>1. i + 1 \in 1..Len(w) /\ v[i] = w[i + 1]
    BY <1>6
  <2>2. 1 \in 1..((i + 1) - 1)
    BY <1>6
  <2>3. x < v[i]
    BY <1>4, <2>1, <2>2
  <2>4. v[i] \in Nat /\ x \in Nat
    BY <1>4, <1>8, <2>1
  <2>5. ASSUME NEW j \in 1..(i - 1) PROVE v[j] < v[i]
    <3>1. j \in 1..Len(v) /\ j + 1 \in 1..((i + 1) - 1)
      BY <1>6
    <3>2. v[j] = w[j + 1]
      BY <1>6, <3>1
    <3>3. w[j + 1] < w[i + 1]
      BY <1>4, <2>1, <3>1
    <3> QED
      BY <2>1, <3>2, <3>3
  <2> QED
    BY <2>3, <2>4, <2>5
<1>11. (\A i \in 1..Len(stream.wire) :
          /\ stream.wire[i] > MaxOr0(page)
          /\ \A j \in 1..(i - 1) : stream.wire[j] < stream.wire[i])'
  <2>1. stream'.wire = v /\ MaxOr0(page)' = x
    BY <1>2, <1>3, <1>9
  <2> QED
    BY <1>10, <2>1
<1>12. (stream \in [lastEventID : 0..lastId, wire : Seq(1..lastId)])'
  BY <1>1, <1>2, <1>3, <1>6
<1>13. (page \subseteq 1..lastId)'
  BY <1>1, <1>2, <1>8
<1>14. stream'.lastEventID = stream.lastEventID
  BY <1>3
<1>15. stream.lastEventID # 0 => stream.lastEventID \in Sent
  BY DEF StreamInv
<1> QED
  BY <1>2, <1>7, <1>11, <1>12, <1>13, <1>14, <1>15, StreamFacts, StreamMoves

\* A new connection goes on after the last id that the browser received; what was
\* on its way comes after it and is read again.
LEMMA StreamReconnect ==
    ASSUME StreamInv, NEW reload, Reconnect(reload)
    PROVE  StreamInv'
<1>1. /\ page' = IF reload THEN {} ELSE page
      /\ stream' = [lastEventID |-> MaxOr0(page'), wire |-> <<>>]
      /\ UNCHANGED <<clock, lastId, events, emitter, overtaken, pager>>
  BY DEF Reconnect
<1>2. lastId \in Nat /\ page' \subseteq 1..lastId /\ page' \subseteq 0..lastId /\ (page' = {} \/ page' = page)
  BY <1>1, StreamFacts
<1> DEFINE m == MaxOr0(page')
<1>3. /\ m \in Nat
      /\ page' # {} => m \in page'
      /\ page' = {} => m = 0
      /\ \A i \in page' : i <= m
  BY <1>2, MaxOr0Greatest
<1>4. Sent' = page'
  BY <1>1 DEF Sent, Range
<1> HIDE DEF m
<1>5. stream' = [lastEventID |-> m, wire |-> <<>>]
  BY <1>1 DEF m
<1>6. (stream \in [lastEventID : 0..lastId, wire : Seq(1..lastId)])'
  <2>1. m \in 0..lastId
    BY <1>2, <1>3
  <2> QED
    BY <1>1, <1>5, <2>1
<1>7. ASSUME NEW r \in events, r.id <= m PROVE r.id \in page' \cup overtaken
  <2>1. r.id \in 1..lastId
    BY StreamFacts
  <2>2. page' # {} /\ page' = page /\ m \in page
    BY <1>2, <1>3, <1>7, <2>1
  <2>3. m \in Sent
    BY <2>2 DEF Sent
  <2>4. m <= stream.lastEventID /\ stream.lastEventID \in 0..lastId
    BY <2>3, StreamFacts
  <2>5. r.id <= stream.lastEventID
    BY <1>2, <1>3, <1>7, <2>1, <2>4
  <2>6. r.id \in Sent \cup overtaken
    BY <2>5, StreamFacts
  <2>7. \A i \in 1..Len(stream.wire) : r.id # stream.wire[i]
    <3>1. ASSUME NEW i \in 1..Len(stream.wire) PROVE r.id # stream.wire[i]
      <4>1. stream.wire[i] \in 1..lastId /\ stream.wire[i] > m
        BY <2>2, StreamFacts DEF m
      <4> QED
        BY <1>2, <1>3, <1>7, <2>1, <4>1
    <3> QED
      BY <3>1
  <2> QED
    BY <2>2, <2>6, <2>7, StreamFacts
<1>8. Sent' \subseteq Sent \cup Ids(events)
  BY <1>2, <1>4 DEF Sent
<1>9. (\A i \in 1..Len(stream.wire) :
          /\ stream.wire[i] > MaxOr0(page)
          /\ \A j \in 1..(i - 1) : stream.wire[j] < stream.wire[i])'
  BY <1>5
<1>10. (page \subseteq 1..lastId)' /\ stream'.lastEventID = m
  BY <1>1, <1>2, <1>5
<1> QED
  BY <1>1, <1>3, <1>4, <1>6, <1>7, <1>8, <1>9, <1>10, StreamMoves

-----------------------------------------------------------------------------

\* StreamInv holds of every behaviour of the bridge and of the dashboard: the
\* stream stands at the last id that was sent, and an id that EmitEvent has drawn
\* and not committed has not been sent.
THEOREM StreamInductive == Spec => []StreamInv
<1>1. Init => StreamInv
  BY StreamInit
<1>2. StreamInv /\ [Next]_vars => StreamInv'
  <2> SUFFICES ASSUME StreamInv, [Next]_vars PROVE StreamInv'
    OBVIOUS
  <2>1. ASSUME NEW e \in Emitters, Begin(e) \/ Insert(e) \/ Commit(e) \/ EmitFails(e) PROVE StreamInv'
    BY <2>1, StreamEmit, StreamCommit
  <2>2. ASSUME NEW cutoff \in 1..(clock + 1), PruneOldEvents(cutoff) PROVE StreamInv'
    BY <2>2, StreamPrune
  <2>3. CASE PollEvents
    BY <2>3, StreamPoll
  <2>4. CASE Receive
    BY <2>4, StreamReceive
  <2>5. ASSUME NEW reload \in BOOLEAN, Reconnect(reload) PROVE StreamInv'
    BY <2>5, StreamReconnect
  <2>6. CASE CountEvents \/ PaginatedEvents \/ UNCHANGED vars
    BY <2>6, StreamList
  <2> QED
    BY <2>1, <2>2, <2>3, <2>4, <2>5, <2>6 DEF Next
<1> QED
  BY <1>1, <1>2, PTL DEF Spec

\* handleSSE repeats no event to a page, never goes back, and passes over none but
\* those that became visible after a greater id, for any Limit, KeepRecent and
\* number of goroutines and lost connections.
THEOREM StreamIsComplete == Spec => []StreamComplete
<1>1. StreamInv => StreamComplete
  BY DEF StreamInv
<1> QED
  BY <1>1, StreamInductive, PTL

-----------------------------------------------------------------------------
(* The list, page by page.                                                 *)

\* COUNT(*) counts the ids: id is the primary key.
LEMMA CountByIds ==
    ASSUME TypeOK
    PROVE  /\ lastId \in Nat /\ Ids(events) \subseteq 0..lastId
           /\ IsFiniteSet(Ids(events)) /\ Cardinality(Ids(events)) \in Nat
           /\ Cardinality(events) = Cardinality(Ids(events))
<1>1. lastId \in Nat /\ \A r \in events : r.id \in 1..lastId
  BY DEF TypeOK
<1>2. Ids(events) \subseteq 0..lastId
  BY <1>1 DEF Ids
<1>3. IsFiniteSet(Ids(events)) /\ Cardinality(Ids(events)) \in Nat
  BY <1>1, <1>2, BoundedFinite
<1> DEFINE f == [r \in events |-> r.id]
<1>4. f \in [events -> Ids(events)]
  BY DEF Ids
<1>5. \A r, q \in events : f[r] = f[q] => r = q
  BY DEF TypeOK
<1>6. \A i \in Ids(events) : \E r \in events : f[r] = i
  BY DEF Ids
<1> HIDE DEF f
<1>7. f \in Injection(events, Ids(events)) /\ f \in Surjection(events, Ids(events))
  BY <1>4, <1>5, <1>6, Zenon DEF Injection, Surjection, IsInjective
<1>8. Cardinality(events) = Cardinality(Ids(events))
  BY <1>3, <1>7, FS_Injection
<1> QED
  BY <1>1, <1>2, <1>3, <1>8

\* In a bounded set of ids, the rank from the greatest down is one more than the
\* number of greater ones, and falls as the id grows.
LEMMA DownRank ==
    ASSUME NEW b \in Nat, NEW S, S \subseteq 0..b, NEW c \in S
    PROVE  /\ Cardinality({i \in S : i > c}) \in Nat
           /\ Cardinality({i \in S : i >= c}) = Cardinality({i \in S : i > c}) + 1
           /\ Cardinality({i \in S : i >= c}) <= Cardinality(S)
           /\ \A a \in S : a < c => Cardinality({i \in S : i >= c}) < Cardinality({i \in S : i >= a})
<1> DEFINE Up(x) == {i \in S : i > x}
           From(x) == {i \in S : i >= x}
<1>1. \A x : Up(x) \subseteq 0..b /\ From(x) \subseteq 0..b
  OBVIOUS
<1>2. \A x : /\ IsFiniteSet(Up(x)) /\ Cardinality(Up(x)) \in Nat
             /\ IsFiniteSet(From(x)) /\ Cardinality(From(x)) \in Nat
  BY <1>1, BoundedFinite
<1>3. ASSUME NEW x \in S PROVE From(x) = Up(x) \cup {x} /\ x \notin Up(x)
  <2>1. x \in Nat /\ \A i \in S : i \in Nat
    OBVIOUS
  <2>2. \A i : i \in S => (i >= x <=> (i > x \/ i = x))
    BY <2>1
  <2>3. ~ (x > x)
    BY <2>1
  <2> QED
    BY <2>2, <2>3, Zenon
<1>4. IsFiniteSet(S) /\ From(c) \in SUBSET S
  BY BoundedFinite
<1>5. ASSUME NEW a \in S, a < c PROVE From(c) \in SUBSET Up(a)
  <2>1. a \in Nat /\ c \in Nat /\ \A i \in S : i \in Nat
    OBVIOUS
  <2>2. \A i \in S : i >= c => i > a
    BY <1>5, <2>1
  <2> QED
    BY <2>2
<1> HIDE DEF Up, From
<1>6. \A x \in S : Cardinality(From(x)) = Cardinality(Up(x)) + 1
  BY <1>2, <1>3, FS_AddElement
<1>7. Cardinality(From(c)) <= Cardinality(S)
  BY <1>4, FS_Subset
<1>8. ASSUME NEW a \in S, a < c PROVE Cardinality(From(c)) < Cardinality(From(a))
  <2>1. Cardinality(From(c)) <= Cardinality(Up(a))
    BY <1>2, <1>5, <1>8, FS_Subset
  <2> QED
    BY <1>2, <1>6, <2>1
<1> QED
  BY <1>2, <1>6, <1>7, <1>8 DEF Up, From

\* A page holds every row whose place in the list is on it.
LEMMA PageRows ==
    ASSUME TypeOK, NEW n \in Nat \ {0}, NEW x \in Ids(events),
           Cardinality(Above(x)) >= (n - 1) * PageSize,
           Cardinality(Above(x)) < n * PageSize
    PROVE  x \in Ids(Paginated(events, n))
<1> DEFINE I == Ids(events)
           c == Cardinality(I)
           k == Cardinality({i \in I : i >= x})
           Nth(m) == CHOOSE r \in events : Cardinality({i \in I : i >= r.id}) = m
           d == [m \in 1..c |-> Nth(m)]
           offset == (n - 1) * PageSize
           last == IF offset + PageSize < c THEN offset + PageSize ELSE c
           p == SubSeq(d, offset + 1, last)
<1>1. /\ lastId \in Nat /\ I \subseteq 0..lastId /\ c \in Nat /\ c = Cardinality(events)
  BY CountByIds
<1>2. Descending(events) = d
  BY DEF Descending
<1>3. Paginated(events, n) = Range(p)
  BY <1>1, <1>2 DEF Paginated
<1>4. k = Cardinality(Above(x)) + 1 /\ k <= c /\ Cardinality(Above(x)) \in Nat
  BY <1>1, DownRank DEF Above
<1>5. Nth(k) \in events /\ Nth(k).id = x
  <2>1. PICK r \in events : r.id = x
    BY DEF Ids
  <2>2. \E q \in events : Cardinality({i \in I : i >= q.id}) = k
    BY <2>1
  <2>3. Nth(k) \in events /\ Cardinality({i \in I : i >= Nth(k).id}) = k
    <3> HIDE DEF I, k
    <3> QED BY <2>2
  <2> DEFINE y == Nth(k).id
  <2>4. y \in I
    BY <2>3 DEF Ids
  <2> HIDE DEF y
  <2>5. Cardinality({i \in I : i >= y}) = k
    BY <2>3 DEF y
  <2>6. y \in Nat /\ x \in Nat
    BY <1>1, <2>4
  <2>7. y < x => Cardinality({i \in I : i >= x}) < Cardinality({i \in I : i >= y})
    BY <1>1, <2>4, DownRank
  <2>8. x < y => Cardinality({i \in I : i >= y}) < Cardinality({i \in I : i >= x})
    BY <1>1, <2>4, DownRank
  <2>9. k \in Nat
    BY <1>4
  <2> HIDE DEF k, I
  <2>10. ~ (y < x)
    BY <2>5, <2>7, <2>9 DEF k
  <2>11. ~ (x < y)
    BY <2>5, <2>8, <2>9 DEF k
  <2>12. y = x
    BY <2>6, <2>10, <2>11
  <2> QED
    BY <2>3, <2>12 DEF y
<1>6. PageSize \in Nat \ {0}
  BY EventAssumption
<1>7. offset \in Nat /\ n * PageSize = offset + PageSize
  BY <1>6
<1>8. k \in offset + 1 .. last /\ k \in 1..c
  <2> HIDE DEF offset, c, k
  <2>1. Cardinality(Above(x)) >= offset /\ Cardinality(Above(x)) < offset + PageSize
    BY <1>7 DEF offset
  <2> QED
    BY <1>1, <1>4, <1>6, <1>7, <2>1
<1>9. last \in Nat /\ last <= c
  <2> HIDE DEF offset, c
  <2> QED BY <1>1, <1>6, <1>7
<1> DEFINE E == {Nth(m) : m \in 1..c}
<1>10. d \in Seq(E) /\ Len(d) = c
  <2> HIDE DEF Nth, c
  <2> QED BY <1>1
<1>11. d[k] = Nth(k)
  <2> HIDE DEF Nth, c, k
  <2> QED BY <1>8
<1> HIDE DEF d, Nth, E, k, c, offset, last
<1>12. /\ p \in Seq(E) /\ Len(p) = last - offset
       /\ \A i \in 1..(last - offset) : p[i] = d[offset + i]
  <2>1. offset + 1 \in 1..(last + 1)
    BY <1>7, <1>8, <1>9
  <2> QED BY <1>7, <1>8, <1>9, <1>10, <2>1
<1>13. k - offset \in 1..(last - offset) /\ offset + (k - offset) = k
  BY <1>7, <1>8, <1>9
<1> HIDE DEF p
<1>14. p[k - offset] = Nth(k)
  BY <1>11, <1>12, <1>13
<1>15. Nth(k) \in Range(p)
  BY <1>12, <1>13, <1>14, RangeOfSeq
<1> QED
  BY <1>3, <1>5, <1>15 DEF Ids

\* The elements of S that are greater than x.
Beyond(S, x) == {i \in S : i > x}

\* Rows that each have at least t others before them are at most as many as the
\* list exceeds t.
LEMMA LowRows ==
    ASSUME NEW b \in Nat, NEW S, S \subseteq 0..b, NEW U, U \subseteq S,
           NEW t \in Nat, NEW s \in Nat, Cardinality(S) <= t + s,
           \A x \in U : Cardinality(Beyond(S, x)) >= t
    PROVE  Cardinality(U) <= s
<1>1. CASE U = {}
  BY <1>1, FS_EmptySet
<1>2. CASE U # {}
  <2>1. PICK g \in U : \A x \in U : x <= g
    BY <1>2, GreatestNatural
  <2> DEFINE T == {i \in S : i > g}
  <2>2. U \subseteq 0..b /\ T \subseteq 0..b
    OBVIOUS
  <2>3. /\ IsFiniteSet(U) /\ Cardinality(U) \in Nat
        /\ IsFiniteSet(T) /\ Cardinality(T) \in Nat
        /\ IsFiniteSet(S) /\ Cardinality(S) \in Nat
    BY <2>2, BoundedFinite
  <2>4. T \cap U = {}
    <3>1. g \in Nat /\ \A x \in U : x \in Nat
      BY <2>2
    <3>2. \A x \in U : ~ (x > g)
      BY <2>1, <3>1
    <3> QED BY <3>2
  <2>5. T \cup U \in SUBSET S
    OBVIOUS
  <2>6. Cardinality(T) >= t
    BY DEF Beyond
  <2> HIDE DEF T
  <2>7. Cardinality(T \cup U) = Cardinality(T) + Cardinality(U) - Cardinality(T \cap U)
    BY <2>3, FS_Union
  <2>8. Cardinality(T \cap U) = 0
    BY <2>4, FS_EmptySet
  <2>9. Cardinality(T \cup U) <= Cardinality(S)
    BY <2>3, <2>5, FS_Subset
  <2>10. Cardinality(T) + Cardinality(U) <= t + s
    BY <2>3, <2>7, <2>8, <2>9
  <2> QED
    BY ONLY <2>3, <2>6, <2>10, t \in Nat, s \in Nat
<1> QED
  BY <1>1, <1>2

\* The pages up to the last one hold as many rows as the count said.
LEMMA LastPage ==
    ASSUME NEW n \in Nat, NEW total \in Nat, n >= totalPages(total)
    PROVE  n * PageSize >= total
<1>1. PageSize \in Nat \ {0}
  BY EventAssumption
<1> DEFINE q == (total + PageSize - 1) \div PageSize
           r == (total + PageSize - 1) % PageSize
<1>2. q \in Int /\ r \in 0..(PageSize - 1) /\ total + PageSize - 1 = PageSize * q + r
  BY <1>1
<1>3. n >= q
  BY DEF totalPages
<1> HIDE DEF q, r
<1>4. n * PageSize >= PageSize * q
  BY <1>1, <1>2, <1>3
<1> DEFINE u == PageSize * q
           v == n * PageSize
<1>5. u \in Int /\ v \in Int
  BY <1>1, <1>2
<1> HIDE DEF u, v
<1>6. total + PageSize - 1 = u + r /\ v >= u
  BY <1>2, <1>4 DEF u, v
<1>7. v >= total
  BY <1>1, <1>2, <1>5, <1>6
<1> QED
  BY <1>7 DEF v

\* Initially the list is empty.
LEMMA PagesInit == Init => PagesInv
<1> SUFFICES ASSUME Init PROVE PagesInv
  OBVIOUS
<1>1. StreamInv
  BY StreamInit
<1>2. /\ pager.at = "count" /\ pager.number = 1 /\ pager.total = 0 /\ pager.since = 0
      /\ pager.gone = 0 /\ pager.start = {} /\ lastId = 0
  BY DEF Init, NoPager
<1>3. Unseen = {}
  BY <1>2 DEF Unseen
<1> QED
  BY <1>1, <1>2, <1>3 DEF PagesInv, PagesComplete

\* A step that leaves the table and the reader of the list alone.
LEMMA PagesQuiet ==
    ASSUME PagesInv, StreamInv', UNCHANGED <<events, pager>>, lastId' \in Nat, lastId' >= lastId,
           \A e \in Emitters : emitter'[e].at = "commit" => emitter'[e].id \notin pager.start
    PROVE  PagesInv'
<1>1. lastId \in Nat
  BY DEF PagesInv, StreamInv, StreamComplete, TypeOK
<1>2. pager'.gone \in 0..lastId' /\ pager'.start \subseteq 1..lastId'
  BY <1>1 DEF PagesInv
<1>3. Unseen' = Unseen /\ \A id : Above(id)' = Above(id)
  BY DEF Unseen, Above
<1> QED
  BY <1>2, <1>3 DEF PagesInv, PagesComplete

\* The steps of EmitEvent up to its commit.
LEMMA PagesEmit ==
    ASSUME PagesInv, StreamInv', NEW e \in Emitters, Begin(e) \/ Insert(e) \/ EmitFails(e)
    PROVE  PagesInv'
<1>1. /\ lastId \in Nat
      /\ emitter \in [Emitters -> [at : {"idle", "insert", "commit"}, id : 0..lastId, created : 0..clock]]
      /\ pager.start \subseteq 1..lastId
      /\ \A f \in Emitters : emitter[f].at = "commit" => emitter[f].id \notin pager.start
  BY DEF PagesInv, StreamInv, StreamComplete, TypeOK
<1>2. UNCHANGED <<events, pager>> /\ lastId' \in {lastId, lastId + 1}
  BY DEF Begin, Insert, EmitFails
<1>3. \A f \in Emitters \ {e} : emitter'[f] = emitter[f]
  BY <1>1 DEF Begin, Insert, EmitFails
<1>4. emitter'[e].at = "commit" => emitter'[e].id = lastId + 1
  BY <1>1 DEF Begin, Insert, EmitFails, Idle
<1>5. lastId + 1 \notin pager.start
  BY <1>1
<1>6. \A f \in Emitters : emitter'[f].at = "commit" => emitter'[f].id \notin pager.start
  BY <1>1, <1>3, <1>4, <1>5
<1> QED
  BY <1>1, <1>2, <1>6, PagesQuiet

\* The stream does not touch the list.
LEMMA PagesStream ==
    ASSUME PagesInv, StreamInv', NEW reload,
           PollEvents \/ Receive \/ Reconnect(reload) \/ UNCHANGED vars
    PROVE  PagesInv'
<1>1. UNCHANGED <<lastId, events, emitter, pager>>
  BY DEF PollEvents, Receive, Reconnect, vars
<1>2. /\ lastId \in Nat
      /\ \A f \in Emitters : emitter[f].at = "commit" => emitter[f].id \notin pager.start
  BY DEF PagesInv, StreamInv, StreamComplete, TypeOK
<1> QED
  BY <1>1, <1>2, PagesQuiet

\* A row that becomes visible was not there when the reader began, and moves
\* rows down.
LEMMA PagesCommit ==
    ASSUME PagesInv, StreamInv', NEW e \in Emitters, Commit(e)
    PROVE  PagesInv'
<1> DEFINE row == [id |-> emitter[e].id, created |-> emitter[e].created]
<1>1. TypeOK /\ TypeOK' /\ StreamInv
  BY DEF PagesInv, StreamInv, StreamComplete
<1>2. /\ DOMAIN pager = DOMAIN NoPager
      /\ emitter \in [Emitters -> [at : {"idle", "insert", "commit"}, id : 0..lastId, created : 0..clock]]
  BY <1>1 DEF TypeOK
<1>3. /\ emitter[e].at = "commit"
      /\ events' = events \cup {row}
      /\ emitter' = [emitter EXCEPT ![e] = Idle]
      /\ lastId' = lastId
  BY DEF Commit
<1>4. /\ pager'.at = pager.at /\ pager'.number = pager.number /\ pager'.total = pager.total
      /\ pager'.start = pager.start /\ pager'.seen = pager.seen /\ pager'.gone = pager.gone
      /\ pager'.since = IF pager.at = "select" THEN pager.since + 1 ELSE pager.since
  BY <1>2 DEF Commit, NoPager
<1>5. row.id = emitter[e].id /\ row.id \notin pager.start
  BY <1>3 DEF PagesInv
<1> HIDE DEF row
<1>6. Ids(events)' = Ids(events) \cup {row.id}
  BY <1>3 DEF Ids
<1>7. Unseen' = Unseen
  BY <1>4, <1>5, <1>6 DEF Unseen
<1>8. /\ lastId \in Nat /\ Ids(events) \subseteq 0..lastId
      /\ IsFiniteSet(Ids(events)) /\ Cardinality(Ids(events)) \in Nat
  BY <1>1, CountByIds
<1>9. Ids(events)' \subseteq 0..lastId
  <2>1. \A r \in events' : r.id \in 1..lastId
    BY <1>1, <1>3 DEF TypeOK
  <2> QED BY <1>8, <2>1 DEF Ids
<1>10. ASSUME NEW id \in Unseen, pager.at # "end"
       PROVE  Cardinality(Above(id)') >= (pager.number - 1) * PageSize
  <2>1. Above(id) \in SUBSET (Above(id)')
    BY <1>6 DEF Above
  <2>2. Above(id) \subseteq 0..lastId /\ Above(id)' \subseteq 0..lastId
    BY <1>8, <1>9 DEF Above
  <2>3. /\ Cardinality(Above(id)) \in Nat
        /\ IsFiniteSet(Above(id)') /\ Cardinality(Above(id)') \in Nat
    BY <1>8, <2>2, BoundedFinite
  <2>4. Cardinality(Above(id)) <= Cardinality(Above(id)')
    BY <2>1, <2>3, FS_Subset
  <2> DEFINE m == (pager.number - 1) * PageSize
  <2>5. Cardinality(Above(id)) >= m /\ m \in Int
    BY <1>10, EventAssumption DEF PagesInv
  <2> HIDE DEF m
  <2>6. Cardinality(Above(id)') >= m
    BY <2>3, <2>4, <2>5
  <2> QED BY <2>6 DEF m
<1>11. /\ Cardinality(Ids(events)') \in Nat
       /\ Cardinality(Ids(events)') <= Cardinality(Ids(events)) + 1
  <2> DEFINE S == Ids(events)
             T == S \cup {row.id}
  <2>1. IsFiniteSet(S) /\ Cardinality(S) \in Nat /\ Cardinality(Ids(events)') = Cardinality(T)
    BY <1>6, <1>8
  <2> HIDE DEF S
  <2>2. Cardinality(T) = IF row.id \in S THEN Cardinality(S) ELSE Cardinality(S) + 1
    BY <2>1, FS_AddElement
  <2> HIDE DEF T
  <2>3. Cardinality(T) \in Nat /\ Cardinality(T) <= Cardinality(S) + 1
    BY <2>1, <2>2
  <2> QED BY <2>1, <2>3 DEF S
<1>12. pager.total \in Nat /\ pager.since \in Nat
  BY DEF PagesInv
<1>13. pager'.at = "select" => Cardinality(Ids(events)') <= pager'.total + pager'.since
  BY <1>4, <1>8, <1>11, <1>12 DEF PagesInv
<1>14. PagesComplete'
  BY <1>4, <1>7 DEF PagesInv, PagesComplete
<1>15. pager'.since \in Nat
  BY <1>4, <1>12
<1>16. \A f \in Emitters : emitter'[f].at = "commit" => emitter'[f].id \notin pager.start
  BY <1>2, <1>3 DEF PagesInv, Idle
<1>17. pager'.at # "end" => \A id \in Unseen' : Cardinality(Above(id)') >= (pager'.number - 1) * PageSize
  BY <1>4, <1>7, <1>10
<1> QED
  BY <1>3, <1>4, <1>13, <1>14, <1>15, <1>16, <1>17 DEF PagesInv

\* Housekeeping moves up only the rows below the ones it deletes.
LEMMA PagesPrune ==
    ASSUME PagesInv, StreamInv', NEW cutoff, PruneOldEvents(cutoff)
    PROVE  PagesInv'
<1> DEFINE recent == Range(Take(Descending(events), KeepRecent))
           old    == {r \in events \ recent : r.created < cutoff}
<1>1. TypeOK
  BY DEF PagesInv, StreamInv, StreamComplete
<1>2. DOMAIN pager = DOMAIN NoPager
  BY <1>1 DEF TypeOK
<1>3. /\ events' = events \ old /\ old \subseteq events
      /\ UNCHANGED <<lastId, emitter>>
  BY DEF PruneOldEvents
<1>4. /\ pager'.at = pager.at /\ pager'.number = pager.number /\ pager'.total = pager.total
      /\ pager'.start = pager.start /\ pager'.seen = pager.seen /\ pager'.since = pager.since
      /\ pager'.gone = IF pager = NoPager THEN 0 ELSE MaxOr0({pager.gone} \cup Ids(old))
  <2> HIDE DEF old
  <2>1. pager' = [pager EXCEPT !.gone = IF pager = NoPager THEN 0 ELSE MaxOr0({pager.gone} \cup Ids(old))]
    BY DEF PruneOldEvents, old
  <2> QED BY <1>2, <2>1 DEF NoPager
<1> HIDE DEF old
<1>5. /\ lastId \in Nat /\ Ids(events) \subseteq 0..lastId
      /\ IsFiniteSet(Ids(events)) /\ Cardinality(Ids(events)) \in Nat
  BY <1>1, CountByIds
<1>6. Ids(old) \subseteq Ids(events) /\ Ids(events)' \subseteq Ids(events)
  BY <1>3 DEF Ids
<1>7. \A i \in Ids(events) : i \in Ids(events)' \/ i \in Ids(old)
  BY <1>3 DEF Ids
<1>8. pager.gone \in 0..lastId
  BY DEF PagesInv
<1>9. pager'.gone \in 0..lastId
  <2>1. {pager.gone} \cup Ids(old) \subseteq 0..lastId
    BY <1>5, <1>6, <1>8
  <2>2. MaxOr0({pager.gone} \cup Ids(old)) \in 0..lastId
    BY <1>5, <2>1, MaxOr0Greatest
  <2> QED BY <1>4, <1>5, <2>2
<1>10. Unseen' \subseteq Unseen /\ \A id \in Unseen' : Above(id)' = Above(id)
  <2>1. CASE pager = NoPager
    <3>1. pager'.start = {}
      BY <1>4, <2>1 DEF NoPager
    <3> QED BY <3>1 DEF Unseen
  <2>2. CASE pager # NoPager
    <3>1. {pager.gone} \cup Ids(old) \subseteq 0..lastId
      BY <1>5, <1>6, <1>8
    <3>2. pager'.gone \in Nat /\ \A i \in {pager.gone} \cup Ids(old) : i <= pager'.gone
      BY <1>4, <1>5, <2>2, <3>1, MaxOr0Greatest
    <3>3. pager.gone <= pager'.gone /\ \A i \in Ids(old) : i <= pager'.gone
      BY <3>2
    <3>4. ASSUME NEW id \in Unseen' PROVE id \in Unseen /\ Above(id)' = Above(id)
      <4>1. id \in pager.start /\ id \in Ids(events)' /\ id \notin pager.seen /\ id > pager'.gone
        BY <1>4 DEF Unseen
      <4>2. id \in Nat
        BY <1>5, <1>6, <4>1
      <4>3. id \in Unseen
        BY <1>6, <1>8, <3>2, <3>3, <4>1, <4>2 DEF Unseen
      <4>4. \A i \in Ids(events) : i > id => i \in Ids(events)'
        BY <1>5, <1>6, <1>7, <3>2, <3>3, <4>1, <4>2
      <4>5. Above(id)' = Above(id)
        BY <1>6, <4>4 DEF Above
      <4> QED BY <4>3, <4>5
    <3> QED BY <3>4
  <2> QED BY <2>1, <2>2
<1>11. Cardinality(Ids(events)') \in Nat /\ Cardinality(Ids(events)') <= Cardinality(Ids(events))
  <2>1. Ids(events)' \in SUBSET Ids(events) /\ Ids(events)' \subseteq 0..lastId
    BY <1>5, <1>6
  <2> QED BY <1>5, <2>1, BoundedFinite, FS_Subset
<1>12. pager.total \in Nat /\ pager.since \in Nat
  BY DEF PagesInv
<1>13. pager'.at = "select" => Cardinality(Ids(events)') <= pager'.total + pager'.since
  BY <1>4, <1>5, <1>11, <1>12 DEF PagesInv
<1>14. PagesComplete'
  <2>1. Unseen \subseteq 0..lastId
    BY <1>5 DEF Unseen
  <2>2. IsFiniteSet(Unseen) /\ Cardinality(Unseen) \in Nat
    BY <1>5, <2>1, BoundedFinite
  <2>3. Unseen' \in SUBSET Unseen /\ Unseen' \subseteq 0..lastId
    BY <1>10, <2>1
  <2>4. Cardinality(Unseen') \in Nat /\ Cardinality(Unseen') <= Cardinality(Unseen)
    BY <1>5, <2>2, <2>3, BoundedFinite, FS_Subset
  <2> QED BY <1>4, <1>12, <2>2, <2>4 DEF PagesInv, PagesComplete
<1>15. pager'.at # "end" => \A id \in Unseen' : Cardinality(Above(id)') >= (pager'.number - 1) * PageSize
  BY <1>4, <1>10 DEF PagesInv
<1> QED
  BY <1>3, <1>4, <1>9, <1>13, <1>14, <1>15 DEF PagesInv

\* The reader opens a page: the count is exact, and the first page starts the list.
LEMMA PagesCount ==
    ASSUME PagesInv, StreamInv', CountEvents
    PROVE  PagesInv'
<1>1. TypeOK /\ StreamInv
  BY DEF PagesInv, StreamInv, StreamComplete
<1>2. DOMAIN pager = DOMAIN NoPager /\ \A r \in events : r.id \in 1..lastId
  BY <1>1 DEF TypeOK
<1>3. UNCHANGED <<lastId, events, emitter>> /\ pager.at = "count"
  BY DEF CountEvents
<1>4. /\ pager'.at = "select" /\ pager'.number = pager.number /\ pager'.total = Cardinality(events)
      /\ pager'.start = IF pager.number = 1 THEN Ids(events) ELSE pager.start
      /\ pager'.seen = pager.seen /\ pager'.since = 0 /\ pager'.gone = pager.gone
  BY <1>2 DEF CountEvents, NoPager
<1>5. /\ lastId \in Nat /\ Ids(events) \subseteq 0..lastId /\ Cardinality(Ids(events)) \in Nat
      /\ Cardinality(events) = Cardinality(Ids(events))
  BY <1>1, CountByIds
<1>6. pager'.start \subseteq 1..lastId
  <2>1. Ids(events) \subseteq 1..lastId
    BY <1>2 DEF Ids
  <2> QED BY <1>4, <2>1 DEF PagesInv
<1>7. \A e \in Emitters : emitter[e].at = "commit" => emitter[e].id \notin pager'.start
  BY <1>1, <1>4 DEF PagesInv, StreamInv
<1>8. \A id \in Unseen' : Cardinality(Above(id)') >= (pager'.number - 1) * PageSize
  <2>1. CASE pager.number = 1
    <3>1. (pager'.number - 1) * PageSize = 0
      BY <1>4, <2>1, EventAssumption
    <3>2. \A id : Above(id)' \subseteq 0..lastId
      BY <1>3, <1>5 DEF Above
    <3>3. \A id : Cardinality(Above(id)') \in Nat
      BY <1>5, <3>2, BoundedFinite
    <3> QED BY <3>1, <3>3
  <2>2. CASE pager.number # 1
    <3>1. Unseen' = Unseen /\ \A id : Above(id)' = Above(id)
      BY <1>3, <1>4, <2>2 DEF Unseen, Above
    <3> QED BY <1>3, <1>4, <3>1 DEF PagesInv
  <2> QED BY <2>1, <2>2
<1>9. Cardinality(Ids(events)') <= pager'.total + pager'.since
  BY <1>3, <1>4, <1>5
<1> QED
  BY <1>3, <1>4, <1>5, <1>6, <1>7, <1>8, <1>9 DEF PagesInv, PagesComplete

\* The rows of a page: what the reader still has not seen stands behind it, and
\* behind the last page there is only what was added since the count.
LEMMA PagesTurned ==
    ASSUME PagesInv, StreamInv', PaginatedEvents
    PROVE  PagesInv'
<1> DEFINE n == pager.number
           P == Ids(Paginated(events, n))
           last == ~ (n < totalPages(pager.total))
<1>1. TypeOK
  BY DEF PagesInv, StreamInv, StreamComplete
<1>2. DOMAIN pager = DOMAIN NoPager
  BY <1>1 DEF TypeOK
<1>3. UNCHANGED <<lastId, events, emitter>> /\ pager.at = "select"
  BY DEF PaginatedEvents
<1>4. /\ pager'.at = IF last THEN "end" ELSE "count"
      /\ pager'.number = n + 1 /\ pager'.total = pager.total
      /\ pager'.start = pager.start /\ pager'.seen = pager.seen \cup P
      /\ pager'.since = pager.since /\ pager'.gone = pager.gone
  <2> HIDE DEF P
  <2>1. pager' = [pager EXCEPT !.seen = pager.seen \cup P,
                               !.at = IF n < totalPages(pager.total) THEN "count" ELSE "end",
                               !.number = n + 1]
    BY DEF PaginatedEvents, P
  <2> QED BY <1>2, <2>1 DEF NoPager
<1>5. n \in Nat \ {0} /\ pager.total \in Nat /\ pager.since \in Nat /\ PageSize \in Nat \ {0}
  BY EventAssumption DEF PagesInv
<1>6. /\ lastId \in Nat /\ Ids(events) \subseteq 0..lastId /\ Cardinality(Ids(events)) \in Nat
  BY <1>1, CountByIds
<1> HIDE DEF P
<1>7. Unseen' = Unseen \ P /\ \A id : Above(id)' = Above(id)
  BY <1>3, <1>4 DEF Unseen, Above
<1>8. ASSUME NEW id \in Unseen'
      PROVE  /\ Cardinality(Above(id)) \in Nat
             /\ Cardinality(Above(id)) >= n * PageSize
  <2>1. id \in Unseen /\ id \notin P /\ id \in Ids(events)
    BY <1>7 DEF Unseen
  <2>2. Cardinality(Above(id)) >= (n - 1) * PageSize
    BY <1>3, <2>1 DEF PagesInv
  <2>3. ~ (Cardinality(Above(id)) < n * PageSize)
    <3> SUFFICES ASSUME Cardinality(Above(id)) < n * PageSize PROVE FALSE
      OBVIOUS
    <3>1. id \in P
      BY <1>1, <1>5, <2>1, <2>2, PageRows DEF P
    <3> QED BY <2>1, <3>1
  <2>4. Above(id) \subseteq 0..lastId
    BY <1>6 DEF Above
  <2>5. Cardinality(Above(id)) \in Nat
    BY <1>6, <2>4, BoundedFinite
  <2> DEFINE m == n * PageSize
  <2>6. m \in Int
    BY <1>5
  <2> HIDE DEF m
  <2>7. Cardinality(Above(id)) >= m
    BY <2>3, <2>5, <2>6 DEF m
  <2> QED BY <2>5, <2>7 DEF m
<1>9. pager'.at # "end" => \A id \in Unseen' : Cardinality(Above(id)') >= (pager'.number - 1) * PageSize
  <2>1. (pager'.number - 1) = n
    BY <1>4, <1>5
  <2> QED BY <1>7, <1>8, <2>1
<1>10. PagesComplete'
  <2> SUFFICES ASSUME pager'.at = "end" PROVE Cardinality(Unseen') <= pager.since
    BY <1>4 DEF PagesComplete
  <2>1. totalPages(pager.total) \in Int
    BY <1>5 DEF totalPages
  <2>2. n >= totalPages(pager.total)
    BY <1>4, <1>5, <2>1
  <2>3. n * PageSize >= pager.total
    BY <1>5, <2>2, LastPage
  <2> DEFINE m == n * PageSize
             S == Ids(events)
  <2>4. m \in Int
    BY <1>5
  <2>5. \A id \in Unseen' : Cardinality(Beyond(S, id)) >= pager.total
    <3> SUFFICES ASSUME NEW id \in Unseen' PROVE Cardinality(Above(id)) >= pager.total
      BY DEF Above, Beyond
    <3>1. Cardinality(Above(id)) \in Nat /\ Cardinality(Above(id)) >= m
      BY <1>8
    <3> HIDE DEF m
    <3> QED BY ONLY <1>5, <2>3, <2>4, <3>1 DEF m
  <2>6. Unseen' \subseteq S
    BY <1>7 DEF Unseen
  <2>7. Cardinality(S) <= pager.total + pager.since
    BY <1>3 DEF PagesInv
  <2> HIDE DEF S
  <2>8. S \subseteq 0..lastId
    BY <1>6 DEF S
  <2>9. lastId \in Nat /\ pager.total \in Nat /\ pager.since \in Nat
    BY <1>5, <1>6
  <2> QED BY ONLY <2>5, <2>6, <2>7, <2>8, <2>9, LowRows
<1>11. /\ pager'.number \in Nat \ {0}
       /\ pager'.at # "select"
  BY <1>4, <1>5
<1> QED
  BY <1>3, <1>4, <1>5, <1>9, <1>10, <1>11 DEF PagesInv

\* PagesInv holds of every behaviour of the bridge and of a reader of its events:
\* a row that he has not seen stands behind the pages he has turned.
THEOREM PagesInductive == Spec => []PagesInv
<1>1. Init => PagesInv
  BY PagesInit
<1>2. PagesInv /\ StreamInv' /\ [Next]_vars => PagesInv'
  <2> SUFFICES ASSUME PagesInv, StreamInv', [Next]_vars PROVE PagesInv'
    OBVIOUS
  <2>1. ASSUME NEW e \in Emitters, Begin(e) \/ Insert(e) \/ Commit(e) \/ EmitFails(e) PROVE PagesInv'
    BY <2>1, PagesEmit, PagesCommit
  <2>2. ASSUME NEW cutoff \in 1..(clock + 1), PruneOldEvents(cutoff) PROVE PagesInv'
    BY <2>2, PagesPrune
  <2>3. ASSUME NEW reload \in BOOLEAN, PollEvents \/ Receive \/ Reconnect(reload) \/ UNCHANGED vars
        PROVE  PagesInv'
    BY <2>3, PagesStream
  <2>4. CASE CountEvents
    BY <2>4, PagesCount
  <2>5. CASE PaginatedEvents
    BY <2>5, PagesTurned
  <2> QED
    BY <2>1, <2>2, <2>3, <2>4, <2>5 DEF Next
<1> QED
  BY <1>1, <1>2, StreamInductive, PTL DEF Spec

\* A reader who turns the pages of handleEvents to the last one misses at most as
\* many of the events that were there when he began as were added between the
\* last count and the rows of that page, for any page size and any number of
\* goroutines, events and deletions.
THEOREM PagesAreComplete == Spec => []PagesComplete
<1>1. PagesInv => PagesComplete
  BY DEF PagesInv
<1> QED
  BY <1>1, PagesInductive, PTL
=============================================================================

------------------------------ MODULE PagingProofs -----------------------------
(* Proofs about the likes that reach the articles, for any articles and any    *)
(* number of votes, losses and restarts; and about a reader of pages, for any  *)
(* number of rows, any pages and loads, whatever joins, leaves and expires.    *)
EXTENDS Paging, FiniteSetTheorems, WellFoundedInduction, TLAPS

USE LikeSyncAssumption DEF ArticleBizID

RowChange == [biz : {ArticleBizID, "other"}, obj : Article, likeNum : 0 .. MaxLikes]

\* The n-th row change in the topic is of article a.
Of(a, n) == canal[n].biz = ArticleBizID /\ canal[n].obj = a

\* The last row change of an article that is in the topic, worked off or not, has the likes
\* on record: a restart may go back to any before it.
LastOnRecord ==
    \A a \in Article, n \in 1 .. Len(canal) :
        Of(a, n) /\ (\A k \in n + 1 .. Len(canal) : ~Of(a, k)) => canal[n].likeNum = count[a]

\* An article of which no row change is to come shows the likes on record, or missed them.
WorkedOff ==
    \A a \in Article :
        (\A k \in taken + 1 .. Len(canal) : ~Of(a, k)) => missed[a] \/ likes[a] = count[a]

SyncInv == TypeOKSync /\ LastOnRecord /\ WorkedOff

LEMMA SyncInit == Init => SyncInv
BY DEF Init, InitSync, SyncInv, TypeOKSync, LastOnRecord, WorkedOff, Of

\* A vote: the new row change is the last of its article.
LEMMA VoteStep == ASSUME SyncInv, NEW v \in Article, Vote(v) PROVE SyncInv'
<1>1. PICK biz \in {ArticleBizID, "other"}, n \in {count[v] - 1, count[v] + 1} \cap 0 .. MaxLikes :
         /\ canal' = Append(canal, [biz |-> biz, obj |-> v, likeNum |-> n])
         /\ count' = IF biz = ArticleBizID THEN [count EXCEPT ![v] = n] ELSE count
  BY DEF Vote
<1>2. canal \in Seq(RowChange) /\ Len(canal) \in Nat /\ taken \in 0 .. Len(canal)
  BY DEF SyncInv, TypeOKSync, RowChange
<1>3. /\ canal' \in Seq(RowChange) /\ Len(canal') = Len(canal) + 1
      /\ \A k \in 1 .. Len(canal) : canal'[k] = canal[k]
      /\ canal'[Len(canal) + 1] = [biz |-> biz, obj |-> v, likeNum |-> n]
  BY <1>1, <1>2 DEF RowChange
<1>4. TypeOKSync'
  BY <1>1, <1>3 DEF Vote, SyncInv, TypeOKSync, RowChange
<1>5. ASSUME NEW a \in Article
      PROVE  /\ \A k \in 1 .. Len(canal) : Of(a, k)' <=> Of(a, k)
             /\ \A k \in Nat : k = Len(canal) + 1 => (Of(a, k)' <=> (biz = ArticleBizID /\ a = v))
             /\ biz = ArticleBizID /\ a = v => count'[a] = n
             /\ ~(biz = ArticleBizID /\ a = v) => count'[a] = count[a]
  <2>1. \A k \in 1 .. Len(canal) : Of(a, k)' <=> Of(a, k)
    BY <1>3 DEF Of
  <2>2. \A k \in Nat : k = Len(canal) + 1 => (Of(a, k)' <=> (biz = ArticleBizID /\ a = v))
    BY <1>3 DEF Of
  <2>3. count \in [Article -> 0 .. MaxLikes]
    BY DEF SyncInv, TypeOKSync
  <2> QED
    BY <1>1, <2>1, <2>2, <2>3
<1>6. LastOnRecord'
  <2> SUFFICES ASSUME NEW a \in Article, NEW i \in 1 .. Len(canal'), Of(a, i)',
                      \A k \in i + 1 .. Len(canal') : ~Of(a, k)'
               PROVE  canal'[i].likeNum = count'[a]
    BY DEF LastOnRecord
  <2>1. CASE i = Len(canal) + 1
    BY <1>2, <1>3, <1>5, <2>1
  <2>2. CASE i \in 1 .. Len(canal)
    <3>1. Of(a, i) /\ \A k \in i + 1 .. Len(canal) : ~Of(a, k)
      BY <1>2, <1>3, <1>5, <2>2
    <3>2. ~(biz = ArticleBizID /\ a = v)
      BY <1>2, <1>3, <1>5, <2>2
    <3> QED
      BY <1>3, <1>5, <2>2, <3>1, <3>2 DEF LastOnRecord, SyncInv
  <2> QED
    BY <1>2, <1>3, <2>1, <2>2
<1>7. WorkedOff'
  <2> SUFFICES ASSUME NEW a \in Article, \A k \in taken' + 1 .. Len(canal') : ~Of(a, k)'
               PROVE  missed'[a] \/ likes'[a] = count'[a]
    BY DEF WorkedOff
  <2>1. taken' = taken /\ missed' = missed /\ likes' = likes
    BY DEF Vote
  <2>2. ~(biz = ArticleBizID /\ a = v) /\ \A k \in taken + 1 .. Len(canal) : ~Of(a, k)
    BY <1>2, <1>3, <1>5, <2>1
  <2> QED
    BY <1>5, <2>1, <2>2 DEF WorkedOff, SyncInv
<1> QED
  BY <1>4, <1>6, <1>7 DEF SyncInv

\* Working off, moving the offset and going back to it.
LEMMA ConsumeStep == ASSUME SyncInv, Consume PROVE SyncInv'
<1> DEFINE d == canal[taken + 1]
<1>2. /\ canal \in Seq(RowChange) /\ Len(canal) \in Nat /\ taken \in 0 .. Len(canal)
      /\ taken < Len(canal) /\ taken' = taken + 1 /\ taken + 1 \in 1 .. Len(canal) /\ d \in RowChange
      /\ UNCHANGED <<count, canal>>
  <2>1. canal \in Seq(RowChange) /\ Len(canal) \in Nat /\ taken \in 0 .. Len(canal)
    BY DEF SyncInv, TypeOKSync, RowChange
  <2>2. taken < Len(canal) /\ taken' = taken + 1 /\ UNCHANGED <<count, canal>>
    BY DEF Consume
  <2>3. taken + 1 \in 1 .. Len(canal)
    BY <2>1, <2>2
  <2> QED
    BY <2>1, <2>2, <2>3
<1>3. TypeOKSync'
  <2>1. likes' \in [Article -> 0 .. MaxLikes] /\ missed' \in [Article -> BOOLEAN]
    <3>1. d.obj \in Article /\ d.likeNum \in 0 .. MaxLikes
      BY <1>2 DEF RowChange
    <3>2. likes \in [Article -> 0 .. MaxLikes] /\ missed \in [Article -> BOOLEAN]
      BY DEF SyncInv, TypeOKSync
    <3>3. \/ UNCHANGED <<likes, missed>>
          \/ likes' = [likes EXCEPT ![d.obj] = d.likeNum] /\ missed' = [missed EXCEPT ![d.obj] = FALSE]
          \/ missed' = [missed EXCEPT ![d.obj] = TRUE] /\ UNCHANGED likes
      BY DEF Consume, UpdateLikeNum
    <3> QED
      BY <3>1, <3>2, <3>3
  <2> QED
    BY <1>2, <2>1 DEF SyncInv, TypeOKSync
<1>4. LastOnRecord'
  BY <1>2 DEF SyncInv, LastOnRecord, Of
<1>5. ASSUME NEW a \in Article, \A k \in taken + 2 .. Len(canal) : ~Of(a, k)
      PROVE  missed'[a] \/ likes'[a] = count[a]
  <2>1. CASE Of(a, taken + 1)
    <3>1. d.likeNum = count[a]
      BY <1>2, <1>5, <2>1 DEF SyncInv, LastOnRecord
    <3> QED
      BY <1>2, <2>1, <3>1 DEF Of, Consume, UpdateLikeNum, SyncInv, TypeOKSync
  <2>2. CASE ~Of(a, taken + 1)
    <3>1. missed[a] \/ likes[a] = count[a]
      BY <1>2, <1>5, <2>2 DEF SyncInv, WorkedOff
    <3>2. missed'[a] = missed[a] /\ likes'[a] = likes[a]
      BY <1>2, <2>2 DEF Of, Consume, UpdateLikeNum, SyncInv, TypeOKSync, RowChange
    <3> QED
      BY <3>1, <3>2
  <2> QED
    BY <2>1, <2>2
<1>6. WorkedOff'
  BY <1>2, <1>5 DEF WorkedOff, Of
<1> QED
  BY <1>3, <1>4, <1>6 DEF SyncInv

LEMMA CommitStep == ASSUME SyncInv, CommitOffset PROVE SyncInv'
<1>1. /\ canal \in Seq(RowChange) /\ Len(canal) \in Nat /\ taken \in 1 .. Len(canal)
      /\ canal' = Tail(canal) /\ taken' = taken - 1 /\ canal # <<>>
  BY DEF SyncInv, TypeOKSync, RowChange, CommitOffset
<1>2. /\ canal' \in Seq(RowChange) /\ Len(canal') = Len(canal) - 1
      /\ \A k \in 1 .. Len(canal) - 1 : canal'[k] = canal[k + 1]
  BY <1>1
<1>3. \A a \in Article, k \in 1 .. Len(canal) - 1 : Of(a, k)' <=> Of(a, k + 1)
  BY <1>1, <1>2 DEF Of
<1>4. TypeOKSync'
  BY <1>1, <1>2 DEF CommitOffset, SyncInv, TypeOKSync, RowChange
<1>5. LastOnRecord'
  <2> SUFFICES ASSUME NEW a \in Article, NEW n \in 1 .. Len(canal'), Of(a, n)',
                      \A k \in n + 1 .. Len(canal') : ~Of(a, k)'
               PROVE  canal'[n].likeNum = count'[a]
    BY DEF LastOnRecord
  <2>1. Of(a, n + 1) /\ n + 1 \in 1 .. Len(canal) /\ canal'[n] = canal[n + 1]
    BY <1>1, <1>2, <1>3
  <2>2. \A k \in n + 2 .. Len(canal) : ~Of(a, k)
    <3> TAKE k \in n + 2 .. Len(canal)
    <3>1. k - 1 \in n + 1 .. Len(canal') /\ k - 1 \in 1 .. Len(canal) - 1 /\ (k - 1) + 1 = k
      BY <1>1, <1>2
    <3> QED
      BY <1>3, <3>1
  <2> QED
    BY <1>1, <2>1, <2>2 DEF SyncInv, LastOnRecord, CommitOffset
<1>6. WorkedOff'
  <2> SUFFICES ASSUME NEW a \in Article, \A k \in taken' + 1 .. Len(canal') : ~Of(a, k)'
               PROVE  missed'[a] \/ likes'[a] = count'[a]
    BY DEF WorkedOff
  <2>1. \A k \in taken + 1 .. Len(canal) : ~Of(a, k)
    <3> TAKE k \in taken + 1 .. Len(canal)
    <3>1. k - 1 \in taken' + 1 .. Len(canal') /\ k - 1 \in 1 .. Len(canal) - 1 /\ (k - 1) + 1 = k
      BY <1>1, <1>2
    <3> QED
      BY <1>3, <3>1
  <2> QED
    BY <2>1 DEF SyncInv, WorkedOff, CommitOffset
<1> QED
  BY <1>4, <1>5, <1>6 DEF SyncInv

LEMMA RestartStep == ASSUME SyncInv, Restart PROVE SyncInv'
<1>1. TypeOKSync'
  BY DEF SyncInv, TypeOKSync, Restart
<1>2. LastOnRecord'
  BY DEF SyncInv, LastOnRecord, Of, Restart
<1>3. WorkedOff'
  BY DEF SyncInv, TypeOKSync, WorkedOff, Of, Restart
<1> QED
  BY <1>1, <1>2, <1>3 DEF SyncInv

LEMMA SyncKept == ASSUME SyncInv, UNCHANGED syncVars PROVE SyncInv'
BY DEF SyncInv, syncVars, TypeOKSync, LastOnRecord, WorkedOff, Of

\* Whatever is paged, changed or lost meanwhile.
LEMMA SyncNext == SyncInv /\ [Next]_allVars => SyncInv'
<1> SUFFICES ASSUME SyncInv, [Next]_allVars PROVE SyncInv'
  OBVIOUS
<1>1. CASE Sync
  BY <1>1, VoteStep, ConsumeStep, CommitStep, RestartStep DEF Sync, SyncStep
<1>2. CASE ~Sync
  <2>1. UNCHANGED syncVars
    BY <1>2 DEF Next, allVars, Join, Leave, Changing, Begin, HitPage, MissPage, Fill, LoseLoad, Expire
  <2> QED
    BY <2>1, SyncKept
<1> QED
  BY <1>1, <1>2

\* article-mq leaves like_num right: once it has worked off the topic, each article shows the
\* likes on record but for one whose last row change could not be written, however often
\* article-mq went back to its committed offset and did its work again.
THEOREM LikesHold == Spec => []LikesAgree
<1>1. SyncInv => LikesAgree
  <2> SUFFICES ASSUME SyncInv, taken = Len(canal), NEW a \in Article
               PROVE  missed[a] \/ likes[a] = count[a]
    BY DEF LikesAgree
  <2>1. Len(canal) \in Nat
    BY DEF SyncInv, TypeOKSync
  <2>2. \A k \in taken + 1 .. Len(canal) : ~Of(a, k)
    BY <2>1
  <2> QED
    BY <2>2 DEF SyncInv, WorkedOff
<1> QED
  BY <1>1, SyncInit, SyncNext, PTL DEF Spec

--------------------------------------------------------------------------------
(* Finite sets and the first of them.                                          *)

\* A set of numbers has a least one.
LEMMA LeastOf == ASSUME NEW T \in SUBSET Nat, T # {} PROVE \E x \in T : \A y \in T : x <= y
<1> DEFINE R == {ss \in Nat \X Nat : ss[1] < ss[2]}
<1>1. IsWellFoundedOn(R, Nat)
  BY NatLessThanWellFounded, Zenon DEF OpToRel
<1>2. \E x \in T : \A y \in T : ~ (<<y, x>> \in R)
  <2> HIDE DEF R
  <2> QED
    BY <1>1, WFMin
<1>3. PICK x \in T : \A y \in T : ~ (<<y, x>> \in R)
  BY <1>2
<1>4. ASSUME NEW y \in T PROVE x <= y
  <2>1. x \in Nat /\ y \in Nat
    OBVIOUS
  <2>2. ~(y < x)
    <3> SUFFICES ASSUME y < x PROVE <<y, x>> \in R
      BY <1>3
    <3>1. <<y, x>> \in Nat \X Nat
      BY <2>1
    <3> QED
      BY <3>1
  <2> QED
    BY <2>1, <2>2
<1> QED
  BY <1>4

\* A finite set has a largest element, whatever it is ranked by.
LEMMA LargestOf ==
  ASSUME NEW S, IsFiniteSet(S), S # {}, NEW r \in [S -> Int]
  PROVE  \E i \in S : \A j \in S : r[i] >= r[j]
<1> DEFINE Bad(X) == X # {} /\ ~\E i \in X : \A j \in X : r[i] >= r[j]
           T == {n \in Nat : \E X \in SUBSET S : Bad(X) /\ Cardinality(X) = n}
<1>1. \A X \in SUBSET S : IsFiniteSet(X) /\ Cardinality(X) \in Nat
  BY FS_Subset, FS_CardinalityType
<1>2. SUFFICES ASSUME Bad(S) PROVE FALSE
  OBVIOUS
<1>3. T # {}
  BY <1>1, <1>2
<1>4. PICK n \in T : \A y \in T : n <= y
  <2> HIDE DEF T
  <2>1. T \in SUBSET Nat
    BY DEF T
  <2> QED
    BY <1>3, <2>1, LeastOf
<1>5. PICK X \in SUBSET S : Bad(X) /\ Cardinality(X) = n
  OBVIOUS
<1>6. PICK x \in X : TRUE
  BY <1>5
<1>7. Cardinality(X \ {x}) = n - 1 /\ Cardinality(X \ {x}) \in Nat
  BY <1>1, <1>5, <1>6, FS_RemoveElement
<1>8. ~Bad(X \ {x})
  <2>1. n - 1 \notin T /\ X \ {x} \in SUBSET S
    BY <1>4, <1>7
  <2> QED
    BY <2>1, <1>7
<1>9. CASE X \ {x} = {}
  BY <1>5, <1>6, <1>9
<1>10. CASE X \ {x} # {}
  <2>1. PICK y \in X \ {x} : \A j \in X \ {x} : r[y] >= r[j]
    BY <1>8, <1>10
  <2>2. r[x] \in Int /\ \A j \in X : r[j] \in Int
    OBVIOUS
  <2>3. CASE r[x] >= r[y]
    BY <2>1, <2>2, <2>3, <1>5, <1>6
  <2>4. CASE r[y] >= r[x]
    BY <2>1, <2>2, <2>4, <1>5, <1>6
  <2> QED
    BY <2>1, <2>2, <2>3, <2>4
<1> QED
  BY <1>9, <1>10

\* page is the first n of set, all of them if there are not so many.
FirstOf(page, set, r, n) ==
    /\ page \subseteq set
    /\ Cardinality(page) = IF Cardinality(set) < n THEN Cardinality(set) ELSE n
    /\ \A i \in page, j \in set \ page : r[i] >= r[j]

LEMMA FirstsExist ==
  ASSUME NEW S, IsFiniteSet(S), NEW r \in [S -> Int], NEW m \in Nat
  PROVE  \E f \in SUBSET S : FirstOf(f, S, r, m)
<1> DEFINE Good(n) == \E f \in SUBSET S : Cardinality(f) = n /\ \A i \in f, j \in S \ f : r[i] >= r[j]
           T == {n \in Nat : n <= Cardinality(S) /\ ~Good(n)}
<1>1. Cardinality(S) \in Nat
  BY FS_CardinalityType
<1>2. T = {}
  <2> SUFFICES ASSUME T # {} PROVE FALSE
    OBVIOUS
  <2>1. PICK n \in T : \A y \in T : n <= y
    <3> HIDE DEF T
    <3>1. T \in SUBSET Nat
      BY DEF T
    <3> QED
      BY <3>1, LeastOf
  <2>2. n # 0
    BY FS_EmptySet
  <2>3. n - 1 \in Nat /\ Good(n - 1)
    <3>1. n - 1 \in Nat /\ n - 1 <= Cardinality(S) /\ n - 1 \notin T
      BY <1>1, <2>1, <2>2
    <3> QED
      BY <3>1
  <2>4. PICK f \in SUBSET S : Cardinality(f) = n - 1 /\ \A i \in f, j \in S \ f : r[i] >= r[j]
    BY <2>3
  <2>5. IsFiniteSet(f) /\ IsFiniteSet(S \ f) /\ S \ f # {}
    <3>1. f # S
      BY <1>1, <2>4
    <3> QED
      BY <3>1, FS_Subset
  <2>6. PICK x \in S \ f : \A j \in S \ f : r[x] >= r[j]
    <3> DEFINE q == [k \in S \ f |-> r[k]]
    <3>1. q \in [S \ f -> Int]
      OBVIOUS
    <3>2. \E i \in S \ f : \A j \in S \ f : q[i] >= q[j]
      <4> HIDE DEF q
      <4> QED
        BY <2>5, <3>1, LargestOf
    <3> QED
      BY <3>2
  <2>7. Cardinality(f \cup {x}) = n
    <3>1. Cardinality(f \cup {x}) = Cardinality(f) + 1
      BY <2>5, <2>6, FS_AddElement
    <3>2. n \in Nat
      BY <2>1
    <3> QED
      BY <2>4, <3>1, <3>2
  <2>8. \A i \in f \cup {x}, j \in S \ (f \cup {x}) : r[i] >= r[j]
    BY <2>4, <2>6
  <2> QED
    BY <2>6, <2>7, <2>8
<1>3. PICK k \in Nat : k = (IF Cardinality(S) < m THEN Cardinality(S) ELSE m) /\ k <= Cardinality(S)
  BY <1>1
<1>4. Good(k)
  <2>1. k \notin T
    BY <1>2
  <2> QED
    BY <1>3, <2>1
<1> QED
  BY <1>3, <1>4 DEF FirstOf

LEMMA FirstFacts ==
  ASSUME NEW S, IsFiniteSet(S), NEW page, NEW r, NEW n \in Nat \ {0}, FirstOf(page, S, r, n)
  PROVE  /\ page \subseteq S
         /\ S # {} => page # {}
         /\ Cardinality(S) <= n => page = S
<1>1. page \subseteq S /\ Cardinality(page) = IF Cardinality(S) < n THEN Cardinality(S) ELSE n
  BY DEF FirstOf
<1>2. /\ IsFiniteSet(page) /\ Cardinality(S) \in Nat /\ Cardinality(page) \in Nat
      /\ Cardinality(S) = Cardinality(page) => page = S
  BY <1>1, FS_Subset, FS_CardinalityType
<1>3. S # {} => Cardinality(S) # 0
  BY FS_EmptySet
<1>4. page = {} => Cardinality(page) = 0
  BY FS_EmptySet
<1> QED
  BY <1>1, <1>2, <1>3, <1>4

\* What a reader gets for a page of these ids with ranks r: the values v of the last
\* item, and no others left out than those before the item the request named.
Answer(reply, ids, r, v, isEnd, req) ==
    /\ IF isEnd THEN reply.isEnd ELSE ~reply.isEnd
    /\ reply.items \subseteq ids
    /\ ids = {} => reply.cursor = 0 /\ reply.id = 0
    /\ ids # {} => \E last \in ids : /\ \A j \in ids : r[last] <= r[j]
                                     /\ reply.cursor = v[last] /\ reply.id = last
    /\ \A i \in ids \ reply.items :
         req.id \in ids /\ v[req.id] = req.cursor /\ i # req.id /\ r[i] >= r[req.id]

\* The ranks and values as functions.
PlaceAt == [m \in DOMAIN score |-> Place(m)]
RowRankAt == [i \in Article |-> RowRank(i)]
ShownAt == [i \in Article |-> ShownValue(i)]
ValueAt == [i \in Article |-> Value(i)]
NoRank == [i \in Article |-> 0]

LEMMA AnswerByTime ==
  ASSUME NEW ids \in SUBSET Article, NEW page, NEW req,
         NEW reply \in Replies(ids, Unordered, TimeOf, End \in page, req)
  PROVE  Answer(reply, ids, NoRank, time, End \in page, req)
<1>1. CASE ids = {}
  BY <1>1 DEF Replies, Answer, NoReply
<1>2. CASE ids # {}
  <2>1. PICK last \in ids, k \in SUBSET ids :
           /\ \A j \in ids : Unordered(last) <= Unordered(j)
           /\ k \in Kept(ids, Unordered, TimeOf, req, last)
           /\ reply = [items |-> k, isEnd |-> End \in page, cursor |-> time[last], id |-> last]
    <3>1. PICK last \in ids : /\ \A j \in ids : Unordered(last) <= Unordered(j)
                               /\ reply \in {[items |-> k, isEnd |-> End \in page, cursor |-> TimeOf(last), id |-> last] :
                                                k \in Kept(ids, Unordered, TimeOf, req, last)}
      BY <1>2 DEF Replies
    <3>2. \A k \in Kept(ids, Unordered, TimeOf, req, last) : k \in SUBSET ids
      BY DEF Kept
    <3> QED
      BY <3>1, <3>2 DEF TimeOf
  <2>2. k \subseteq ids /\ \A i \in ids \ k : req.id \in ids /\ time[req.id] = req.cursor /\ i # req.id
    BY <2>1 DEF Kept, TimeOf
  <2>3. \A i, j \in ids : NoRank[i] <= NoRank[j] /\ NoRank[i] >= NoRank[j]
    BY DEF NoRank
  <2> QED
    BY <1>2, <2>1, <2>2, <2>3 DEF Answer
<1> QED
  BY <1>1, <1>2

LEMMA AnswerByPlace ==
  ASSUME NEW ids \in SUBSET DOMAIN score, NEW page, NEW req, ids # {},
         NEW reply \in Replies(ids, Place, ScoreOf, End \in page, req)
  PROVE  Answer(reply, ids, PlaceAt, score, End \in page, req)
<1>1. PICK last \in ids, k \in SUBSET ids :
         /\ \A j \in ids : Place(last) <= Place(j)
         /\ k \in Kept(ids, Place, ScoreOf, req, last)
         /\ reply = [items |-> k, isEnd |-> End \in page, cursor |-> score[last], id |-> last]
  <2>1. PICK last \in ids : /\ \A j \in ids : Place(last) <= Place(j)
                             /\ reply \in {[items |-> k, isEnd |-> End \in page, cursor |-> ScoreOf(last), id |-> last] :
                                              k \in Kept(ids, Place, ScoreOf, req, last)}
    BY DEF Replies
  <2>2. \A k \in Kept(ids, Place, ScoreOf, req, last) : k \in SUBSET ids
    BY DEF Kept
  <2> QED
    BY <2>1, <2>2 DEF ScoreOf
<1>2. /\ k \subseteq ids
      /\ \A i \in ids \ k : req.id \in ids /\ score[req.id] = req.cursor /\ i # req.id /\ Place(i) >= Place(req.id)
  BY <1>1 DEF Kept, ScoreOf
<1> QED
  BY <1>1, <1>2 DEF Answer, PlaceAt

LEMMA AnswerByShown ==
  ASSUME NEW ids \in SUBSET Article, NEW page, NEW req,
         NEW reply \in Replies(ids, ShownValue, ShownValue, End \in page, req)
  PROVE  Answer(reply, ids, ShownAt, ShownAt, End \in page, req)
<1>1. CASE ids = {}
  BY <1>1 DEF Replies, Answer, NoReply
<1>2. CASE ids # {}
  <2>1. PICK last \in ids, k \in SUBSET ids :
           /\ \A j \in ids : ShownValue(last) <= ShownValue(j)
           /\ k \in Kept(ids, ShownValue, ShownValue, req, last)
           /\ reply = [items |-> k, isEnd |-> End \in page, cursor |-> ShownValue(last), id |-> last]
    <3>1. PICK last \in ids : /\ \A j \in ids : ShownValue(last) <= ShownValue(j)
                               /\ reply \in {[items |-> k, isEnd |-> End \in page, cursor |-> ShownValue(last), id |-> last] :
                                                k \in Kept(ids, ShownValue, ShownValue, req, last)}
      BY <1>2 DEF Replies
    <3>2. \A k \in Kept(ids, ShownValue, ShownValue, req, last) : k \in SUBSET ids
      BY DEF Kept
    <3> QED
      BY <3>1, <3>2
  <2>2. /\ k \subseteq ids
        /\ \A i \in ids \ k : /\ req.id \in ids /\ ShownValue(req.id) = req.cursor /\ i # req.id
                              /\ ShownValue(i) >= ShownValue(req.id)
    BY <2>1 DEF Kept
  <2> QED
    BY <1>2, <2>1, <2>2 DEF Answer, ShownAt
<1> QED
  BY <1>1, <1>2

LEMMA AnswerByRow ==
  ASSUME NEW ids \in SUBSET Article, NEW rows, NEW req,
         NEW reply \in Replies(ids, RowRank, Value, Cardinality(rows) <= mode.size, req)
  PROVE  Answer(reply, ids, RowRankAt, ValueAt, Cardinality(rows) <= mode.size, req)
<1>1. CASE ids = {}
  BY <1>1 DEF Replies, Answer, NoReply
<1>2. CASE ids # {}
  <2>1. PICK last \in ids, k \in SUBSET ids :
           /\ \A j \in ids : RowRank(last) <= RowRank(j)
           /\ k \in Kept(ids, RowRank, Value, req, last)
           /\ reply = [items |-> k, isEnd |-> Cardinality(rows) <= mode.size, cursor |-> Value(last), id |-> last]
    <3>1. PICK last \in ids : /\ \A j \in ids : RowRank(last) <= RowRank(j)
                               /\ reply \in {[items |-> k, isEnd |-> Cardinality(rows) <= mode.size, cursor |-> Value(last), id |-> last] :
                                                k \in Kept(ids, RowRank, Value, req, last)}
      BY <1>2 DEF Replies
    <3>2. \A k \in Kept(ids, RowRank, Value, req, last) : k \in SUBSET ids
      BY DEF Kept
    <3> QED
      BY <3>1, <3>2
  <2>2. /\ k \subseteq ids
        /\ \A i \in ids \ k : req.id \in ids /\ Value(req.id) = req.cursor /\ i # req.id /\ RowRank(i) >= RowRank(req.id)
    BY <2>1 DEF Kept
  <2> QED
    BY <1>2, <2>1, <2>2 DEF Answer, RowRankAt, ValueAt
<1> QED
  BY <1>1, <1>2

\* The types, but for those of the likes on their way.
Typed ==
    /\ likes \in [Article -> 0 .. MaxLikes]
    /\ mode \in Modes /\ now \in Nat
    /\ status \in [Article -> {"none", "in", "out"}] /\ time \in [Article -> 0 .. now]
    /\ DOMAIN score \subseteq Article \cup {End} /\ score \in [DOMAIN score -> Nat]
    /\ cached \in [Article -> {NoLikes} \cup 0 .. MaxLikes]
    /\ todo \subseteq [item : Article \cup {End}, at : Nat]
    /\ expired \in BOOLEAN
    /\ reader \in [step : {"new", "asks", "done"}, cursor : Nat, id : Nat]
    /\ seen \subseteq Article /\ steady \subseteq Article

LEMMA SameTypes == TypeOK <=> TypeOKSync /\ Typed
BY DEF TypeOK, Typed, TypeOKSync

LEMMA ModeFacts ==
  ASSUME mode \in Modes
  PROVE  /\ mode.list \in {"follow", "fans", "publish_time", "like_num"}
         /\ mode.size \in Nat \ {0} /\ mode.max \in Nat \ {0} /\ mode.first \in Nat
BY PagingAssumption DEF Follows, Articles

LEMMA ArticleFacts ==
  /\ Article \subseteq Nat \ {0} /\ End \notin Article /\ Cardinality(Article) \in Nat
  /\ \A X \in SUBSET (Article \cup {End}) : IsFiniteSet(X)
<1>1. IsFiniteSet(Article) /\ End \notin Article /\ Article = 1 .. Cardinality(Article)
  BY PagingAssumption
<1>2. Cardinality(Article) \in Nat /\ IsFiniteSet(Article \cup {End})
  BY <1>1, FS_CardinalityType, FS_AddElement
<1>3. \A X \in SUBSET (Article \cup {End}) : IsFiniteSet(X)
  BY <1>2, FS_Subset
<1> QED
  BY <1>1, <1>2, <1>3

LEMMA ValueTypes ==
  ASSUME Typed
  PROVE  /\ \A i \in Article : Value(i) \in Nat /\ ShownValue(i) \in Nat /\ RowRank(i) \in Nat
         /\ mode.list = "like_num" => \A i \in Article : ShownValue(i) \in 0 .. MaxLikes
         /\ \A m \in DOMAIN score : score[m] \in Nat /\ Place(m) \in Nat
         /\ Request.cursor \in Nat /\ Request.id = reader.id
<1>1. \A i \in Article : likes[i] \in 0 .. MaxLikes /\ time[i] \in Nat /\ cached[i] \in {NoLikes} \cup 0 .. MaxLikes
  BY DEF Typed
<1>2. \A i \in Article : Value(i) \in Nat /\ ShownValue(i) \in Nat /\ RowRank(i) \in Nat
  <2> TAKE i \in Article
  <2>1. Value(i) \in Nat /\ RowRank(i) \in Nat
    BY <1>1, ArticleFacts DEF Value, RowRank
  <2>2. ShownValue(i) \in Nat
    BY <1>1, <2>1 DEF ShownValue, NoLikes
  <2> QED
    BY <2>1, <2>2
<1>3. mode.list = "like_num" => \A i \in Article : ShownValue(i) \in 0 .. MaxLikes
  BY <1>1 DEF Value, ShownValue, NoLikes
<1>4. \A m \in DOMAIN score : score[m] \in Nat /\ (m = End \/ m \in Article)
  BY DEF Typed
<1>5. \A m \in DOMAIN score : Place(m) \in Nat
  <2> TAKE m \in DOMAIN score
  <2> DEFINE n == Cardinality(Article)
  <2>1. n \in Nat /\ score[m] \in Nat
    BY <1>4, ArticleFacts
  <2>2. score[m] * (n + 1) \in Nat
    <3> HIDE DEF n
    <3> QED
      BY <2>1
  <2>3. m # End => m \in 1 .. n
    BY <1>4, PagingAssumption
  <2> QED
    BY <2>1, <2>2, <2>3 DEF Place
<1>6. Request.cursor \in Nat /\ Request.id = reader.id
  BY DEF Typed, Request
<1> QED
  BY <1>2, <1>3, <1>4, <1>5, <1>6

\* Members the set has for a request.
Below(c) == {m \in DOMAIN score : score[m] <= c}

LEMMA WindowFirst ==
  ASSUME Typed, NEW c
  PROVE  IsFiniteSet(Below(c)) /\ FirstOf(Window(c), Below(c), PlaceAt, mode.size)
<1> DEFINE S == Below(c)
           r == [m \in S |-> Place(m)]
<1>1. IsFiniteSet(S)
  BY ArticleFacts DEF Typed, Below
<1>2. r \in [S -> Int] /\ mode.size \in Nat
  BY ValueTypes, ModeFacts DEF Typed, Below
<1>3. \E f \in SUBSET S : FirstOf(f, S, r, mode.size)
  <2> HIDE DEF r, S
  <2> QED
    BY <1>1, <1>2, FirstsExist
<1>4. Firsts(S, Place, mode.size) # {}
  BY <1>3 DEF FirstOf, Firsts
<1>5. Window(c) \in Firsts(S, Place, mode.size)
  BY <1>4 DEF Window, Below
<1> QED
  BY <1>1, <1>5 DEF Firsts, FirstOf, PlaceAt, Below

\* Members MySQL has for a request.
Asked(req) == {i \in Members : mode.list \in Follows \/ Value(i) < req.cursor}

LEMMA RowsFirst ==
  ASSUME Typed, NEW req, NEW rows \in Rows(req)
  PROVE  /\ IsFiniteSet(Asked(req)) /\ IsFiniteSet(rows) /\ rows \subseteq Article
         /\ FirstOf(rows, Asked(req), RowRankAt, mode.max)
<1>1. Asked(req) \subseteq Article
  BY DEF Asked, Members
<1>2. FirstOf(rows, Asked(req), RowRankAt, mode.max)
  BY <1>1 DEF Rows, Firsts, FirstOf, Asked, RowRankAt
<1> QED
  BY <1>1, <1>2, ArticleFacts DEF FirstOf

LEMMA PageFirst ==
  ASSUME NEW rows \in SUBSET Article, NEW page \in Firsts(rows, RowRank, mode.size)
  PROVE  FirstOf(page, rows, RowRankAt, mode.size)
BY DEF Firsts, FirstOf, RowRankAt

Paged ==
    /\ reader' \in [step : {"new", "asks", "done"}, cursor : Nat, id : Nat]
    /\ seen' \subseteq Article

NoReplyTaken ==
    /\ reader' = [step |-> "asks", cursor |-> 0, id |-> 0]
    /\ seen' = seen

LEMMA NoReplyFacts == ASSUME NEW reply, reply = NoReply, Take(reply) PROVE NoReplyTaken
BY DEF Take, NoReply, NoReplyTaken

\* A page of the set, as the list answers it.
LEMMA HitAnswer ==
  ASSUME Typed, HitPage, NEW page, page = Window(Request.cursor)
  PROVE  /\ page # {} /\ page \ {End} \in SUBSET Article /\ page \ {End} \subseteq DOMAIN score
         /\ \/ mode.list = "fans" /\ page \ {End} = {} /\ NoReplyTaken
            \/ \E reply :
                 /\ Take(reply)
                 /\ mode.list = "follow" =>
                      Answer(reply, page \ {End}, NoRank, time, End \in page, Request)
                 /\ mode.list = "fans" =>
                      Answer(reply, page \ {End}, PlaceAt, score, End \in page, Request)
                 /\ mode.list \in Articles =>
                      Answer(reply, page \ {End}, ShownAt, ShownAt, End \in page, Request)
<1> DEFINE ids == page \ {End}
<1>1. PICK reply \in Cached(Request, page) : Take(reply)
  BY DEF HitPage
<1>2. page # {} /\ ids \in SUBSET Article /\ ids \subseteq DOMAIN score
  <2>1. page \subseteq DOMAIN score
    BY WindowFirst DEF FirstOf, Below
  <2> QED
    BY <2>1 DEF HitPage, Typed
<1>3. CASE mode.list = "follow"
  <2>1. reply \in Replies(ids, Unordered, TimeOf, End \in page, Request)
    BY <1>1, <1>3 DEF Cached, CachedFollowList
  <2>2. Answer(reply, ids, NoRank, time, End \in page, Request)
    BY <1>2, <2>1, AnswerByTime
  <2> QED
    BY <1>1, <1>2, <1>3, <2>2 DEF Articles
<1>4. CASE mode.list = "fans" /\ ids = {}
  <2>1. reply = NoReply
    BY <1>1, <1>4 DEF Cached, CachedFansList
  <2> QED
    BY <1>1, <1>2, <1>4, <2>1, NoReplyFacts
<1>5. CASE mode.list = "fans" /\ ids # {}
  <2>1. reply \in Replies(ids, Place, ScoreOf, End \in page, Request)
    BY <1>1, <1>5 DEF Cached, CachedFansList
  <2>2. Answer(reply, ids, PlaceAt, score, End \in page, Request)
    BY <1>2, <1>5, <2>1, AnswerByPlace
  <2> QED
    BY <1>1, <1>2, <1>5, <2>2 DEF Articles
<1>6. CASE mode.list \in Articles
  <2>1. reply \in Replies(ids, ShownValue, ShownValue, End \in page, Request)
    BY <1>1, <1>6 DEF Cached, CachedArticles, Articles
  <2>2. Answer(reply, ids, ShownAt, ShownAt, End \in page, Request)
    BY <1>2, <2>1, AnswerByShown
  <2> QED
    BY <1>1, <1>2, <1>6, <2>2 DEF Articles
<1> QED
  BY <1>3, <1>4, <1>5, <1>6, ModeFacts DEF Typed, Articles

\* A page of MySQL's rows.
LEMMA MissAnswer ==
  ASSUME Typed, MissPage
  PROVE  \E rows \in Rows(Request) :
           /\ todo' = todo \cup Load(rows)
           /\ rows = {} /\ mode.list \in Follows => NoReplyTaken
           /\ ~(rows = {} /\ mode.list \in Follows) =>
                \E page \in SUBSET rows : \E reply :
                  /\ Take(reply) /\ FirstOf(page, rows, RowRankAt, mode.size)
                  /\ Answer(reply, page, RowRankAt, ValueAt, Cardinality(rows) <= mode.size, Request)
<1>1. PICK rows \in Rows(Request) : /\ \E reply \in FromRows(Request, rows) : Take(reply)
                                    /\ todo' = todo \cup Load(rows)
  BY DEF MissPage
<1>2. PICK reply \in FromRows(Request, rows) : Take(reply)
  BY <1>1
<1>3. rows \in SUBSET Article
  BY RowsFirst
<1>4. CASE rows = {} /\ mode.list \in Follows
  <2>1. reply = NoReply
    BY <1>2, <1>4 DEF FromRows
  <2> QED
    BY <1>1, <1>2, <1>4, <2>1, NoReplyFacts
<1>5. CASE ~(rows = {} /\ mode.list \in Follows)
  <2>1. PICK page \in Firsts(rows, RowRank, mode.size) :
           reply \in Replies(page, RowRank, Value, Cardinality(rows) <= mode.size, Request)
    BY <1>2, <1>5 DEF FromRows
  <2>2. FirstOf(page, rows, RowRankAt, mode.size) /\ page \in SUBSET rows
    BY <1>3, <2>1, PageFirst DEF FirstOf
  <2>3. Answer(reply, page, RowRankAt, ValueAt, Cardinality(rows) <= mode.size, Request)
    BY <1>3, <2>1, <2>2, AnswerByRow
  <2> QED
    BY <1>1, <1>2, <1>5, <2>2, <2>3
<1> QED
  BY <1>4, <1>5

LEMMA HitTypes == ASSUME Typed, HitPage PROVE Paged
<1> DEFINE page == Window(Request.cursor)
           ids == page \ {End}
<1>1. ids \in SUBSET Article /\ ids \subseteq DOMAIN score
  BY HitAnswer
<1>2. \A i \in ids : time[i] \in Nat /\ score[i] \in Nat /\ ShownAt[i] \in Nat
  <2>1. \A i \in Article : time[i] \in Nat
    BY DEF Typed
  <2>2. \A i \in Article : ShownAt[i] \in Nat
    BY ValueTypes DEF ShownAt
  <2>3. \A m \in DOMAIN score : score[m] \in Nat
    BY ValueTypes
  <2> HIDE DEF ids
  <2> QED
    BY <1>1, <2>1, <2>2, <2>3
<1>3. CASE NoReplyTaken
  BY <1>3 DEF NoReplyTaken, Typed, Paged
<1>4. ASSUME NEW reply, Take(reply), NEW v, \A i \in ids : v[i] \in Nat,
             reply.items \subseteq ids, ids = {} => reply.cursor = 0 /\ reply.id = 0,
             ids # {} => \E last \in ids : reply.cursor = v[last] /\ reply.id = last
      PROVE  Paged
  <2>1. reply.cursor \in Nat /\ reply.id \in Nat
    <3> HIDE DEF ids
    <3>1. CASE ids = {}
      BY <1>4, <3>1
    <3>2. CASE ids # {}
      <4>1. PICK last \in ids : reply.cursor = v[last] /\ reply.id = last
        BY <1>4, <3>2
      <4>2. last \in Nat
        BY <1>1, ArticleFacts
      <4> QED
        BY <1>4, <4>1, <4>2
    <3> QED
      BY <3>1, <3>2
  <2> QED
    BY <1>1, <1>4, <2>1 DEF Take, Typed, Paged
<1>5. CASE ~NoReplyTaken
  <2>1. PICK reply :
          /\ Take(reply)
          /\ mode.list = "follow" => Answer(reply, ids, NoRank, time, End \in page, Request)
          /\ mode.list = "fans" => Answer(reply, ids, PlaceAt, score, End \in page, Request)
          /\ mode.list \in Articles => Answer(reply, ids, ShownAt, ShownAt, End \in page, Request)
    BY <1>5, HitAnswer
  <2>2. CASE mode.list = "follow"
    BY <1>2, <1>4, <2>1, <2>2 DEF Answer
  <2>3. CASE mode.list = "fans"
    BY <1>2, <1>4, <2>1, <2>3 DEF Answer
  <2>4. CASE mode.list \in Articles
    BY <1>2, <1>4, <2>1, <2>4 DEF Answer
  <2> QED
    BY <2>2, <2>3, <2>4, ModeFacts DEF Typed, Articles
<1> QED
  BY <1>3, <1>5

LEMMA MissTypes == ASSUME Typed, MissPage PROVE Paged /\ todo' \subseteq [item : Article \cup {End}, at : Nat]
<1>1. PICK rows \in Rows(Request) :
           /\ todo' = todo \cup Load(rows)
           /\ rows = {} /\ mode.list \in Follows => NoReplyTaken
           /\ ~(rows = {} /\ mode.list \in Follows) =>
                \E page \in SUBSET rows : \E reply :
                  /\ Take(reply) /\ FirstOf(page, rows, RowRankAt, mode.size)
                  /\ Answer(reply, page, RowRankAt, ValueAt, Cardinality(rows) <= mode.size, Request)
  BY MissAnswer
<1>2. rows \subseteq Article /\ \A i \in Article : Value(i) \in Nat
  BY RowsFirst, ValueTypes
<1>3. Load(rows) \subseteq [item : Article \cup {End}, at : Nat]
  BY <1>2 DEF Load
<1>4. ASSUME rows = {} /\ mode.list \in Follows PROVE Paged
  BY <1>1, <1>4 DEF NoReplyTaken, Typed, Paged
<1>5. ASSUME ~(rows = {} /\ mode.list \in Follows) PROVE Paged
  <2>1. PICK page \in SUBSET rows :
          \E reply : Take(reply) /\ Answer(reply, page, RowRankAt, ValueAt, Cardinality(rows) <= mode.size, Request)
    BY <1>1, <1>5
  <2>2. PICK reply : Take(reply) /\ Answer(reply, page, RowRankAt, ValueAt, Cardinality(rows) <= mode.size, Request)
    BY <2>1
  <2>3. reply.items \subseteq page
    BY <2>2 DEF Answer
  <2>4. reply.cursor \in Nat /\ reply.id \in Nat
    <3>1. CASE page = {}
      BY <2>2, <3>1 DEF Answer
    <3>2. CASE page # {}
      <4>1. PICK last \in page : reply.cursor = ValueAt[last] /\ reply.id = last
        BY <2>2, <3>2 DEF Answer
      <4>2. last \in Nat /\ last \in Article /\ ValueAt[last] = Value(last)
        BY <1>2, ArticleFacts DEF ValueAt
      <4> QED
        BY <1>2, <4>1, <4>2
    <3> QED
      BY <3>1, <3>2
  <2> QED
    BY <1>2, <2>2, <2>3, <2>4 DEF Take, Typed, Paged
<1>6. todo' \subseteq [item : Article \cup {End}, at : Nat]
  BY <1>1, <1>3 DEF Typed
<1> QED
  BY <1>4, <1>5, <1>6

\* The set has scores.
Scored == DOMAIN score \subseteq Article \cup {End} /\ score \in [DOMAIN score -> Nat]

LEMMA ScoredWith ==
  ASSUME Scored, NEW i \in Article \cup {End}, NEW n \in Nat, score' = With(i, n)
  PROVE  Scored'
<1>1. score' \in [DOMAIN score \cup {i} -> Nat]
  BY DEF With, Scored
<1>2. DOMAIN score' = DOMAIN score \cup {i}
  BY <1>1
<1> QED
  BY <1>1, <1>2 DEF Scored

LEMMA ScoredWithout == ASSUME Scored, NEW i, score' = Without(i) PROVE Scored'
<1>1. score' \in [DOMAIN score \ {i} -> Nat]
  BY DEF Without, Restrict, Scored
<1>2. DOMAIN score' = DOMAIN score \ {i}
  BY <1>1
<1> QED
  BY <1>1, <1>2 DEF Scored

LEMMA TypedInit == Init => Typed
<1> SUFFICES ASSUME Init PROVE Typed
  OBVIOUS
<1>1. mode \in Modes /\ mode.first \in Nat /\ likes \in [Article -> 0 .. MaxLikes]
  BY ModeFacts DEF Init, InitSync
<1>2. now \in Nat /\ time \in [Article -> 0 .. now]
  <2>1. now \in Nat /\ now = mode.first + 1
    BY <1>1 DEF Init
  <2>2. time = [i \in Article |-> IF i > mode.first THEN 0 ELSE IF mode.tied /\ i = 2 THEN 1 ELSE i]
    BY DEF Init
  <2>3. \A i \in Article : (IF i > mode.first THEN 0 ELSE IF mode.tied /\ i = 2 THEN 1 ELSE i) \in 0 .. now
    BY <1>1, <2>1, ArticleFacts
  <2> QED
    BY <2>1, <2>2, <2>3
<1>3. Scored
  <2>1. \A i \in Article : Value(i) \in Nat
    BY <1>1, <1>2 DEF Value
  <2>2. Members \subseteq Article
    BY DEF Members
  <2>3. CASE score = EmptySet
    BY <2>3 DEF EmptySet, Scored
  <2>4. CASE score = [m \in Members \cup {End} |-> IF m = End THEN 0 ELSE Value(m)]
    <3>1. score \in [Members \cup {End} -> Nat]
      BY <2>1, <2>2, <2>4
    <3>2. DOMAIN score = Members \cup {End}
      BY <3>1
    <3> QED
      BY <2>2, <3>1, <3>2 DEF Scored
  <2> QED
    BY <2>3, <2>4 DEF Init
<1> QED
  BY <1>1, <1>2, <1>3 DEF Init, Typed, Scored, Unasked, NoLikes

LEMMA JoinTypes == ASSUME Typed, NEW i \in Article, Join(i) PROVE Typed'
<1>1. now' \in Nat /\ time' \in [Article -> 0 .. now'] /\ now' = now + 1
  BY DEF Typed, Join
<1>2. Scored'
  <2>1. CASE UNCHANGED score
    BY <2>1 DEF Typed, Scored
  <2>2. ASSUME NEW n \in Nat, score' = With(i, n) PROVE Scored'
    BY <2>2, ScoredWith DEF Typed, Scored
  <2> QED
    BY <1>1, <2>1, <2>2 DEF Join
<1>3. status' \in [Article -> {"none", "in", "out"}] /\ cached' \in [Article -> {NoLikes} \cup 0 .. MaxLikes]
  BY DEF Typed, Join
<1>4. UNCHANGED <<mode, likes, todo, expired, reader, seen, steady>>
  BY DEF Join, Changing, syncVars
<1> QED
  BY <1>1, <1>2, <1>3, <1>4 DEF Typed, Scored

LEMMA LeaveTypes == ASSUME Typed, NEW i \in Article, Leave(i) PROVE Typed'
<1>1. Scored'
  BY ScoredWithout DEF Typed, Scored, Leave
<1>2. status' \in [Article -> {"none", "in", "out"}] /\ cached' \in [Article -> {NoLikes} \cup 0 .. MaxLikes]
  BY DEF Typed, Leave
<1>3. UNCHANGED <<mode, likes, now, time, todo, expired, reader, seen>> /\ steady' \subseteq steady
  BY DEF Leave, Changing, syncVars
<1> QED
  BY <1>1, <1>2, <1>3 DEF Typed, Scored

LEMMA FillTypes == ASSUME Typed, Fill PROVE Typed'
<1>1. PICK add \in todo : score' = With(add.item, add.at) /\ todo' = todo \ {add}
  BY DEF Fill
<1>2. add.item \in Article \cup {End} /\ add.at \in Nat
  BY DEF Typed
<1>3. Scored'
  BY <1>1, <1>2, ScoredWith DEF Typed, Scored
<1>4. UNCHANGED <<mode, likes, now, status, time, cached, expired, reader, seen, steady>>
  BY DEF Fill, syncVars
<1> QED
  BY <1>1, <1>3, <1>4 DEF Typed, Scored

LEMMA TypedNext == ASSUME Typed, TypeOKSync', [Next]_allVars PROVE Typed'
<1>1. ASSUME NEW i \in Article, Join(i) \/ Leave(i) PROVE Typed'
  BY <1>1, JoinTypes, LeaveTypes
<1>2. CASE Begin
  <2>1. now' \in Nat /\ time' \in [Article -> 0 .. now']
    BY <1>2 DEF Typed, Begin
  <2>2. reader' \in [step : {"new", "asks", "done"}, cursor : Nat, id : Nat]
    BY <1>2 DEF Typed, Begin
  <2>3. UNCHANGED <<mode, likes, status, score, cached, todo, expired, seen>> /\ steady' \subseteq Article
    BY <1>2 DEF Begin, syncVars, Members
  <2> QED
    BY <2>1, <2>2, <2>3 DEF Typed
<1>3. CASE HitPage
  <2>1. Paged
    BY <1>3, HitTypes
  <2>2. cached' \in [Article -> {NoLikes} \cup 0 .. MaxLikes]
    BY <1>3, ValueTypes DEF HitPage, Typed
  <2>3. UNCHANGED <<mode, likes, now, status, time, score, todo, expired, steady>>
    BY <1>3 DEF HitPage, syncVars, listVars
  <2> QED
    BY <2>1, <2>2, <2>3 DEF Typed, Paged
<1>4. CASE MissPage
  <2>1. Paged /\ todo' \subseteq [item : Article \cup {End}, at : Nat]
    BY <1>4, MissTypes
  <2>2. UNCHANGED <<mode, likes, now, status, time, score, cached, expired, steady>>
    BY <1>4 DEF MissPage, syncVars, listVars
  <2> QED
    BY <2>1, <2>2 DEF Typed, Paged
<1>5. CASE Fill
  BY <1>5, FillTypes
<1>6. CASE LoseLoad
  BY <1>6 DEF LoseLoad, syncVars, listVars, Typed
<1>7. CASE Expire
  <2>1. Scored' /\ expired' \in BOOLEAN
    BY <1>7 DEF Expire, EmptySet, Scored
  <2>2. UNCHANGED <<mode, likes, now, status, time, cached, todo, reader, seen, steady>>
    BY <1>7 DEF Expire, syncVars
  <2> QED
    BY <2>1, <2>2 DEF Typed, Scored
<1>8. CASE Sync
  BY <1>8 DEF Sync, listVars, Typed, TypeOKSync
<1>9. CASE UNCHANGED allVars
  BY <1>9 DEF allVars, syncVars, listVars, Typed
<1> QED
  BY <1>1, <1>2, <1>3, <1>4, <1>5, <1>6, <1>7, <1>8, <1>9 DEF Next

--------------------------------------------------------------------------------
(* What a reader of pages is still to see.                                     *)

\* What NothingSkipped is about.
Plain ==
    /\ ~mode.faulty /\ ~mode.tied /\ ~mode.likes
    /\ mode.size < mode.max \/ Cardinality(Article) < mode.max
    /\ mode.list = "follow" => Cardinality(Article) < mode.size

\* Rows there are, members in the set, and those to be added.
Created == {i \in Article : status[i] # "none"}
InSet == DOMAIN score \ {End}
Pending == {add.item : add \in todo}

\* What the reader is still to see, and what is above all of it.
Left == (IF reader.step = "new" THEN Members ELSE steady) \ seen
Ceiling == IF mode.list = "like_num" THEN MaxLikes + 1 ELSE now

\* Rows are created one by one; likes stay, and differ where there are any.
RowsOK ==
    /\ canal = <<>> /\ taken = 0
    /\ \A i \in Article : status[i] = "none" => time[i] = 0 /\ likes[i] = 0
    /\ \A i \in Created : 0 < time[i] /\ time[i] <= now
    /\ \A i, j \in Article : i < j /\ j \in Created => i \in Created /\ time[i] < time[j]
    /\ \A i, j \in Article : likes[i] = likes[j] /\ likes[i] > 0 => i = j

\* Scores are the values, or the second a row came back in, and no two are the same.
SetOK ==
    /\ InSet \subseteq Created
    /\ End \in DOMAIN score => score[End] = 0
    /\ mode.list \in Articles => \A i \in InSet : score[i] = Value(i)
    /\ mode.list \in Follows =>
         /\ \A i \in InSet : time[i] <= score[i] /\ score[i] <= now
         /\ \A i \in InSet, j \in Article : i # j => score[i] # time[j] /\ (j \in InSet => score[i] # score[j])
    /\ \A i \in Article : cached[i] \in {NoLikes, likes[i]}

TodoOK ==
    \A add \in todo : IF add.item = End THEN add.at = 0
                      ELSE add.item \in Created /\ add.at = Value(add.item)

LeftOK ==
    /\ steady \subseteq Members
    /\ reader.step = "new" => todo = {} /\ seen = {} /\ reader.cursor = 0

\* A closed set has all the reader is still to see, and so has one that is about to be.
AllIn ==
    /\ End \in DOMAIN score => Left \subseteq DOMAIN score
    /\ End \in Pending => Left \subseteq DOMAIN score \cup Pending

\* It is all behind the cursor.
Behind ==
    mode.list # "follow" /\ reader.step # "new" =>
      \A i \in Left :
        /\ Value(i) < Request.cursor /\ Value(i) < Ceiling
        /\ i \in DOMAIN score => score[i] < Request.cursor /\ score[i] < Ceiling

\* What is not in the set comes behind what is, and what is to be added first.
TopFirst ==
    mode.list # "follow" =>
      \A i \in Left \ DOMAIN score :
        /\ \A m \in InSet : score[m] > 0 => score[m] >= Value(i)
        /\ i \in Pending \/ \A add \in todo : add.item # End => add.at >= Value(i)

\* Of follows, the first page with anything in it is all there is.
Whole ==
    mode.list = "follow" /\ reader.step # "done" =>
      reader.cursor = 0 /\ reader.id = 0 /\ todo = {} /\ (DOMAIN score = {} \/ End \in DOMAIN score)

SeenAll == reader.step = "done" => Left = {}

Order == RowsOK /\ SetOK /\ TodoOK
Course == LeftOK /\ AllIn /\ Behind /\ TopFirst /\ Whole /\ SeenAll
PageInv == Plain => Order /\ Course

LEMMA TimesDiffer ==
  ASSUME Typed, RowsOK
  PROVE  \A i \in Created, j \in Article : i # j => time[i] # time[j]
<1> SUFFICES ASSUME NEW i \in Created, NEW j \in Article, i # j PROVE time[i] # time[j]
  OBVIOUS
<1>1. i \in Article /\ i \in Nat /\ j \in Nat /\ time[i] \in Nat /\ time[j] \in Nat /\ time[i] > 0
  BY ArticleFacts DEF Typed, RowsOK, Created
<1>2. CASE j \notin Created
  BY <1>1, <1>2 DEF RowsOK, Created
<1>3. CASE j \in Created
  BY <1>1, <1>3 DEF RowsOK
<1> QED
  BY <1>2, <1>3

LEMMA Orders ==
  ASSUME Typed, RowsOK, SetOK
  PROVE  /\ \A i, j \in Created : i # j /\ Value(i) >= Value(j) /\ Value(i) > 0 => Value(i) > Value(j)
         /\ \A i \in InSet : Value(i) <= score[i] /\ i \in Article
         /\ \A m \in InSet, i \in Created : i # m /\ score[m] >= Value(i) /\ score[m] > 0 => score[m] > Value(i)
         /\ \A m, i \in InSet : i # m /\ score[m] >= score[i] /\ score[m] > 0 => score[m] > score[i]
<1>1. /\ \A i \in Article : likes[i] \in Nat /\ time[i] \in Nat /\ Value(i) \in Nat /\ i \in Nat
      /\ \A m \in DOMAIN score : score[m] \in Nat
  BY ValueTypes, ArticleFacts DEF Typed
<1>2. \A i, j \in Created : i # j => time[i] # time[j]
  BY TimesDiffer DEF Created
<1>3. \A i, j \in Created : i # j /\ Value(i) >= Value(j) /\ Value(i) > 0 => Value(i) > Value(j)
  BY <1>1, <1>2 DEF RowsOK, Value, Created
<1>4. InSet \subseteq Created /\ Created \subseteq Article /\ InSet \subseteq DOMAIN score
  BY DEF SetOK, Created, InSet
<1>5. CASE mode.list \in Articles
  BY <1>1, <1>3, <1>4, <1>5 DEF SetOK
<1>6. CASE mode.list \in Follows
  <2>1. \A i \in Article : Value(i) = time[i]
    BY <1>6 DEF Value, Follows
  <2> QED
    BY <1>1, <1>3, <1>4, <1>6, <2>1 DEF SetOK
<1> QED
  BY <1>5, <1>6, ModeFacts DEF Articles, Follows, Typed

LEMMA Blocks == ASSUME NEW a \in Nat, NEW b \in Nat, NEW k \in Nat, a < b PROVE a * k + k <= b * k
<1>1. PICK d \in Nat : b = a + 1 + d
  <2>1. b - a - 1 \in Nat /\ b = a + 1 + (b - a - 1)
    OBVIOUS
  <2> QED
    BY <2>1
<1>2. b * k = a * k + k + d * k
  BY <1>1
<1>3. d * k \in Nat /\ a * k \in Nat
  OBVIOUS
<1> QED
  BY <1>2, <1>3

LEMMA Places ==
  ASSUME Typed, SetOK
  PROVE  /\ \A m, k \in DOMAIN score : Place(m) >= Place(k) => score[m] >= score[k]
         /\ \A m \in InSet : End \in DOMAIN score => Place(m) > Place(End)
<1> DEFINE n == Cardinality(Article)
           b(m) == IF m = End THEN 0 ELSE n + 1 - m
<1>1. n \in Nat /\ \A m \in DOMAIN score : score[m] \in Nat /\ score[m] * (n + 1) \in Nat
  <2>1. n \in Nat
    BY ArticleFacts
  <2>2. ASSUME NEW m \in DOMAIN score PROVE score[m] \in Nat /\ score[m] * (n + 1) \in Nat
    <3> HIDE DEF n
    <3>1. score[m] \in Nat
      BY ValueTypes
    <3> QED
      BY <2>1, <3>1
  <2> QED
    BY <2>1, <2>2
<1>2. \A m \in DOMAIN score : b(m) \in 0 .. n /\ (m # End => b(m) > 0)
  <2>1. \A m \in DOMAIN score : m = End \/ m \in 1 .. n
    BY PagingAssumption DEF Typed
  <2> QED
    BY <1>1, <2>1
<1>3. \A m \in DOMAIN score : Place(m) = score[m] * (n + 1) + b(m)
  BY DEF Place
<1>4. ASSUME NEW m \in DOMAIN score, NEW k \in DOMAIN score, score[m] < score[k] PROVE Place(m) < Place(k)
  <2> HIDE DEF n, b
  <2>1. score[m] * (n + 1) + (n + 1) <= score[k] * (n + 1)
    BY <1>1, <1>4, Blocks
  <2> QED
    BY <1>1, <1>2, <1>3, <2>1
<1>5. ASSUME NEW m \in InSet, End \in DOMAIN score PROVE Place(m) > Place(End)
  <2>1. m \in DOMAIN score /\ m # End
    BY DEF InSet
  <2>2. b(m) > 0 /\ b(End) = 0 /\ score[End] = 0 /\ b(m) \in Nat
    BY <1>1, <1>2, <1>5, <2>1 DEF SetOK
  <2>3. Place(m) = score[m] * (n + 1) + b(m) /\ Place(End) = score[End] * (n + 1) + b(End)
    BY <1>3, <1>5, <2>1
  <2>4. score[m] * (n + 1) \in Nat /\ score[End] * (n + 1) = 0
    BY <1>1, <2>1, <2>2
  <2> HIDE DEF n, b
  <2> QED
    BY <2>2, <2>3, <2>4
<1> QED
  BY <1>1, <1>4, <1>5, ValueTypes

LEMMA OrderInit == ASSUME Init, Plain PROVE Order
<1>1. Typed
  BY TypedInit
<1>2. RowsOK
  <2>1. canal = <<>> /\ taken = 0
    BY DEF Init, InitSync
  <2>2. \A i \in Article : /\ status[i] = IF i <= mode.first THEN "in" ELSE "none"
                           /\ time[i] = IF i > mode.first THEN 0 ELSE i
                           /\ i \in Nat \ {0} /\ likes[i] \in Nat
    <3>1. \A i \in Article : i \in Nat \ {0} /\ likes[i] \in Nat
      BY <1>1, ArticleFacts DEF Typed
    <3>2. /\ status = [i \in Article |-> IF i <= mode.first THEN "in" ELSE "none"]
          /\ time = [i \in Article |-> IF i > mode.first THEN 0 ELSE IF mode.tied /\ i = 2 THEN 1 ELSE i]
      BY DEF Init
    <3>3. time = [i \in Article |-> IF i > mode.first THEN 0 ELSE i]
      BY <3>2 DEF Plain
    <3> QED
      BY <3>1, <3>2, <3>3
  <2>3. mode.first \in Nat /\ now = mode.first + 1
    BY <1>1, ModeFacts DEF Init, Typed
  <2>4. \A i \in Article : likes[i] > 0 => i \in Members /\ mode.list = "like_num"
    BY DEF Init
  <2>5. \A i, j \in Article : likes[i] = likes[j] /\ likes[i] > 0 => i = j
    BY <2>2, <2>4 DEF Init
  <2>6. \A i \in Article : status[i] = "none" => time[i] = 0 /\ likes[i] = 0
    BY <2>2, <2>3, <2>4 DEF Members
  <2> QED
    BY <2>1, <2>2, <2>3, <2>5, <2>6 DEF RowsOK, Created
<1>3. SetOK
  <2>1. Members \subseteq Created /\ End \notin Members /\ Members \subseteq Article
    BY ArticleFacts DEF Members, Created
  <2>2. \A i \in Article : cached[i] \in {NoLikes, likes[i]}
    BY DEF Init
  <2>3. CASE DOMAIN score = {}
    BY <2>2, <2>3 DEF SetOK, InSet
  <2>4. CASE score = [m \in Members \cup {End} |-> IF m = End THEN 0 ELSE Value(m)]
    <3>1. InSet = Members /\ score[End] = 0 /\ \A i \in InSet : score[i] = Value(i)
      BY <2>1, <2>4 DEF InSet
    <3>2. ASSUME mode.list \in Follows
          PROVE  /\ \A i \in InSet : time[i] <= score[i] /\ score[i] <= now
                 /\ \A i \in InSet, j \in Article : i # j => score[i] # time[j] /\ (j \in InSet => score[i] # score[j])
      <4>1. \A i \in InSet : score[i] = time[i]
        BY <3>1, <3>2 DEF Value, Follows
      <4>2. \A i \in Created, j \in Article : i # j => time[i] # time[j]
        BY <1>1, <1>2, TimesDiffer
      <4>3. \A i \in Created : time[i] <= now
        BY <1>2 DEF RowsOK
      <4>4. \A i \in Article : time[i] \in Nat
        BY <1>1 DEF Typed
      <4> QED
        BY <2>1, <3>1, <4>1, <4>2, <4>3, <4>4
    <3> QED
      BY <2>1, <2>2, <3>1, <3>2 DEF SetOK
  <2> QED
    BY <2>3, <2>4 DEF Init, EmptySet
<1>4. TodoOK
  BY DEF Init, TodoOK
<1> QED
  BY <1>2, <1>3, <1>4 DEF Order

\* What a new row, or one that comes back, does.
Joined(i) ==
    /\ i \notin Members /\ now' = now + 1
    /\ \/ status[i] = "out" /\ mode.list \in Follows /\ UNCHANGED time
       \/ /\ status[i] = "none" /\ \A j \in Article : status[j] = "none" => i <= j
          /\ time' = [time EXCEPT ![i] = now']
    /\ Created' = Created \cup {i} /\ Members' = Members \cup {i}
    /\ \/ DOMAIN score = {} /\ score' = score
       \/ /\ DOMAIN score # {} /\ DOMAIN score' = DOMAIN score \cup {i}
          /\ score'[i] = (IF mode.list = "like_num" THEN 0 ELSE now')
          /\ \A m \in DOMAIN score : m # i => score'[m] = score[m]
    /\ cached' = [cached EXCEPT ![i] = NoLikes]
    /\ UNCHANGED <<mode, count, canal, taken, likes, missed, todo, reader, seen, steady>>

LEMMA JoinFacts == ASSUME Typed, NEW i \in Article, Join(i) PROVE Joined(i)
<1>1. status' = [status EXCEPT ![i] = "in"] /\ status[i] \in {"none", "out"}
  BY DEF Join
<1>2. Created' = Created \cup {i} /\ Members' = Members \cup {i} /\ i \notin Members
  BY <1>1 DEF Created, Members, Typed
<1>3. \/ DOMAIN score = {} /\ score' = score
      \/ /\ DOMAIN score # {} /\ DOMAIN score' = DOMAIN score \cup {i}
         /\ score'[i] = (IF mode.list = "like_num" THEN 0 ELSE now')
         /\ \A m \in DOMAIN score : m # i => score'[m] = score[m]
  <2>1. CASE score = EmptySet
    BY <2>1 DEF Join, EmptySet
  <2>2. CASE score # EmptySet
    <3>1. score' = With(i, IF mode.list = "like_num" THEN 0 ELSE now')
      BY <2>2 DEF Join
    <3>2. CASE DOMAIN score # {}
      BY <3>1, <3>2 DEF With
    <3>3. CASE DOMAIN score = {}
      BY <2>2, <3>3 DEF Typed, EmptySet
    <3> QED
      BY <3>2, <3>3
  <2> QED
    BY <2>1, <2>2
<1> QED
  BY <1>1, <1>2, <1>3 DEF Join, Joined, Changing, syncVars

LEMMA JoinOrder == ASSUME Typed, Plain, Order, NEW i \in Article, Joined(i) PROVE Order'
<1>1. /\ \A j \in Article : time[j] \in Nat /\ likes[j] \in Nat /\ j \in Nat \ {0}
      /\ now \in Nat /\ now' = now + 1
      /\ Created \subseteq Article /\ i \in Created' /\ Created' = Created \cup {i}
  BY ArticleFacts DEF Typed, Joined, Created
<1>2. /\ \A j \in Article : j # i => time'[j] = time[j]
      /\ status[i] = "none" => time'[i] = now'
      /\ status[i] # "none" => time'[i] = time[i] /\ mode.list \in Follows /\ i \in Created
  BY DEF Typed, Joined, Created
<1>3. i \notin Created <=> status[i] = "none"
  BY DEF Created
<1>4. RowsOK'
  <2>1. canal' = <<>> /\ taken' = 0
    BY DEF Order, RowsOK, Joined
  <2>2. \A j \in Article : status'[j] = "none" => time'[j] = 0 /\ likes'[j] = 0
    <3>1. \A j \in Article : status'[j] = "none" => j \notin Created'
      BY DEF Created
    <3>2. \A j \in Article : status'[j] = "none" => j # i /\ status[j] = "none"
      BY <1>1, <3>1 DEF Created
    <3> QED
      BY <1>2, <3>2 DEF Order, RowsOK, Joined
  <2>3. \A j \in Created' : 0 < time'[j] /\ time'[j] <= now'
    BY <1>1, <1>2, <1>3 DEF Order, RowsOK
  <2>4. \A j, k \in Article : j < k /\ k \in Created' => j \in Created' /\ time'[j] < time'[k]
    <3> SUFFICES ASSUME NEW j \in Article, NEW k \in Article, j < k, k \in Created'
                 PROVE  j \in Created' /\ time'[j] < time'[k]
      OBVIOUS
    <3>1. CASE i \in Created
      BY <1>1, <1>2, <1>3, <3>1 DEF Order, RowsOK
    <3>2. CASE i \notin Created /\ k = i
      <4>1. status[j] # "none" /\ j # i
        BY <1>1, <1>3, <3>2 DEF Joined
      <4>2. j \in Created /\ time[j] <= now
        BY <4>1 DEF Created, Order, RowsOK
      <4> QED
        BY <1>1, <1>2, <1>3, <3>2, <4>1, <4>2
    <3>3. CASE i \notin Created /\ k # i
      BY <1>1, <1>2, <1>3, <3>3 DEF Order, RowsOK
    <3> QED
      BY <3>1, <3>2, <3>3
  <2>5. \A j, k \in Article : likes'[j] = likes'[k] /\ likes'[j] > 0 => j = k
    BY DEF Order, RowsOK, Joined
  <2> QED
    BY <2>1, <2>2, <2>3, <2>4, <2>5 DEF RowsOK
<1>5. \A j \in Article : j # i \/ i \in Created => Value(j)' = Value(j)
  BY <1>2, <1>3 DEF Value, Joined
<1>6. mode.list \in Articles => i \notin Created /\ Value(i)' = IF mode.list = "like_num" THEN 0 ELSE now'
  BY <1>2, <1>3, ModeFacts DEF Value, Joined, Order, RowsOK, Articles, Follows, Typed
<1>7. /\ \A m \in DOMAIN score' : m # i => m \in DOMAIN score /\ score'[m] = score[m]
      /\ i \in DOMAIN score' => score'[i] = (IF mode.list = "like_num" THEN 0 ELSE now')
      /\ InSet' \subseteq InSet \cup {i}
      /\ End \in DOMAIN score' => End \in DOMAIN score /\ score'[End] = score[End]
      /\ \A m \in InSet' : m # i => m \in InSet
  <2>1. i # End
    BY ArticleFacts
  <2>2. CASE DOMAIN score = {} /\ score' = score
    BY <2>1, <2>2 DEF InSet
  <2>3. CASE ~(DOMAIN score = {} /\ score' = score)
    BY <2>1, <2>3 DEF Joined, InSet
  <2> QED
    BY <2>2, <2>3
<1>8. SetOK'
  <2>1. InSet' \subseteq Created'
    BY <1>1, <1>7 DEF Order, SetOK
  <2>2. End \in DOMAIN score' => score'[End] = 0
    BY <1>7 DEF Order, SetOK
  <2>3. ASSUME mode'.list \in Articles, NEW m \in InSet' PROVE score'[m] = Value(m)'
    <3>1. mode.list \in Articles /\ m \in DOMAIN score'
      BY <2>3 DEF Joined, InSet
    <3>2. CASE m = i
      BY <1>6, <1>7, <3>1, <3>2
    <3>3. CASE m # i
      <4>1. m \in InSet /\ m \in Article /\ score'[m] = score[m]
        BY <1>7, <3>1, <3>3, <1>1 DEF Order, SetOK
      <4> QED
        BY <1>5, <3>1, <3>3, <4>1 DEF Order, SetOK
    <3> QED
      BY <3>2, <3>3
  <2>4. ASSUME mode'.list \in Follows
        PROVE  /\ \A m \in InSet' : time'[m] <= score'[m] /\ score'[m] <= now'
               /\ \A m \in InSet', j \in Article :
                     m # j => score'[m] # time'[j] /\ (j \in InSet' => score'[m] # score'[j])
    <3>1. mode.list \in Follows /\ (i \in DOMAIN score' => score'[i] = now')
      BY <1>7, <2>4 DEF Joined, Follows
    <3>2. \A m \in InSet' : m \in DOMAIN score' /\ m \in Article /\ m # End
      BY <1>1, <1>7, <2>1 DEF InSet
    <3>3. \A m \in InSet' : m # i => m \in InSet /\ score'[m] = score[m] /\ time'[m] = time[m]
                                     /\ time[m] <= score[m] /\ score[m] <= now /\ score[m] \in Nat
      BY <1>2, <1>7, <3>1, <3>2 DEF Order, SetOK, Typed
    <3>4. \A j \in Article : time[j] <= now /\ time'[j] <= now'
      BY <1>1, <1>2, <1>3 DEF Typed
    <3>5. \A m \in InSet' : time'[m] <= score'[m] /\ score'[m] <= now'
      BY <1>1, <3>1, <3>2, <3>3, <3>4
    <3>6. ASSUME NEW m \in InSet', NEW j \in Article, m # j
          PROVE  score'[m] # time'[j] /\ (j \in InSet' => score'[m] # score'[j])
      <4>1. CASE m = i
        BY <1>1, <1>2, <3>1, <3>2, <3>3, <3>4, <3>6, <4>1
      <4>2. CASE j = i
        BY <1>1, <1>2, <1>3, <3>1, <3>2, <3>3, <3>6, <4>2 DEF Order, SetOK
      <4>3. CASE m # i /\ j # i
        BY <1>2, <3>1, <3>3, <3>6, <4>3 DEF Order, SetOK
      <4> QED
        BY <4>1, <4>2, <4>3
    <3> QED
      BY <3>5, <3>6
  <2>5. \A j \in Article : cached'[j] \in {NoLikes, likes'[j]}
    BY DEF Order, SetOK, Joined, Typed
  <2> QED
    BY <2>1, <2>2, <2>3, <2>4, <2>5 DEF SetOK
<1>9. TodoOK'
  <2> SUFFICES ASSUME NEW add \in todo
               PROVE  IF add.item = End THEN add.at = 0
                      ELSE add.item \in Created' /\ add.at = Value(add.item)'
    BY DEF TodoOK, Joined
  <2>1. CASE add.item = End
    BY <2>1 DEF Order, TodoOK
  <2>2. CASE add.item # End
    <3>1. add.item \in Created /\ add.at = Value(add.item) /\ add.item \in Article
      BY <1>1, <2>2 DEF Order, TodoOK
    <3>2. add.item # i \/ i \in Created
      BY <3>1
    <3> QED
      BY <1>1, <1>5, <2>2, <3>1, <3>2
  <2> QED
    BY <2>1, <2>2
<1> QED
  BY <1>4, <1>8, <1>9 DEF Order

LEMMA RowsKept ==
  ASSUME Typed, RowsOK, now' \in {now, now + 1}, UNCHANGED <<mode, count, canal, taken, likes, missed, time>>, Created' = Created,
         \A i \in Article : status'[i] = "none" => status[i] = "none"
  PROVE  RowsOK'
<1>1. now \in Nat /\ \A i \in Article : time[i] \in Nat
  BY DEF Typed
<1>2. \A i \in Created' : 0 < time'[i] /\ time'[i] <= now'
  <2>1. Created \subseteq Article
    BY DEF Created
  <2> QED
    BY <1>1, <2>1 DEF RowsOK
<1> QED
  BY <1>2 DEF RowsOK

LEMMA SetKept ==
  ASSUME Typed, SetOK, now' \in {now, now + 1}, UNCHANGED <<mode, likes, time, score>>, Created' = Created,
         \A i \in Article : cached'[i] \in {NoLikes, likes[i]}
  PROVE  SetOK'
<1>1. now \in Nat /\ \A m \in DOMAIN score : score[m] \in Nat
  BY DEF Typed
<1>2. InSet' = InSet /\ \A i : Value(i)' = Value(i)
  BY DEF InSet, Value
<1>3. mode.list \in Follows => \A i \in InSet : score[i] <= now'
  BY <1>1 DEF SetOK, InSet
<1> QED
  BY <1>2, <1>3 DEF SetOK

LEMMA TodoKept ==
  ASSUME TodoOK, UNCHANGED <<mode, likes, time>>, Created' = Created, todo' \subseteq todo
  PROVE  TodoOK'
<1>1. \A i : Value(i)' = Value(i)
  BY DEF Value
<1> QED
  BY <1>1 DEF TodoOK

LEMMA LeaveOrder == ASSUME Typed, Order, NEW i \in Article, Leave(i) PROVE Order'
<1>1. UNCHANGED <<mode, count, canal, taken, likes, missed, todo, reader, seen, now, time>>
  BY DEF Leave, Changing, syncVars
<1>2. Created' = Created /\ \A j \in Article : status'[j] = "none" => status[j] = "none"
  BY DEF Leave, Created, Typed
<1>3. RowsOK'
  BY <1>1, <1>2, RowsKept DEF Order
<1>4. /\ DOMAIN score' = DOMAIN score \ {i} /\ InSet' = InSet \ {i}
      /\ \A m \in DOMAIN score' : score'[m] = score[m]
  BY DEF Leave, Without, Restrict, InSet
<1>5. \A j : Value(j)' = Value(j)
  BY <1>1 DEF Value
<1>6. \A j \in Article : cached'[j] \in {NoLikes, likes'[j]}
  BY <1>1 DEF Leave, Order, SetOK, Typed
<1>7. InSet' \subseteq InSet /\ \A m \in InSet' : m \in DOMAIN score'
  BY <1>4 DEF InSet
<1>8. SetOK'
  BY <1>1, <1>2, <1>4, <1>5, <1>6, <1>7 DEF Order, SetOK
<1>9. TodoOK'
  BY <1>1, <1>2, TodoKept DEF Order
<1> QED
  BY <1>3, <1>8, <1>9 DEF Order

LEMMA FillOrder == ASSUME Typed, Order, Fill PROVE Order'
<1>1. PICK add \in todo : score' = With(add.item, add.at) /\ todo' = todo \ {add}
  BY DEF Fill
<1>2. UNCHANGED <<mode, count, canal, taken, likes, missed, now, status, time, cached>>
  BY DEF Fill, syncVars
<1>3. Created' = Created /\ \A j : Value(j)' = Value(j)
  BY <1>2 DEF Created, Value
<1>4. RowsOK' /\ TodoOK'
  BY <1>1, <1>2, <1>3, RowsKept, TodoKept DEF Order
<1>5. /\ DOMAIN score' = DOMAIN score \cup {add.item}
      /\ \A m \in DOMAIN score' : score'[m] = IF m = add.item THEN add.at ELSE score[m]
  BY <1>1 DEF With
<1>6. add.at \in Nat /\ IF add.item = End THEN add.at = 0 ELSE add.item \in Created /\ add.at = Value(add.item)
  BY DEF Order, TodoOK, Typed
<1>7. SetOK'
  <2>1. InSet' \subseteq Created'
    BY <1>3, <1>5, <1>6 DEF Order, SetOK, InSet
  <2>2. End \in DOMAIN score' => score'[End] = 0
    BY <1>5, <1>6 DEF Order, SetOK
  <2>3. \A m \in InSet' : m # add.item => m \in InSet /\ score'[m] = score[m]
    BY <1>5 DEF InSet
  <2>4. \A m \in InSet' : m = add.item => score'[m] = Value(m)
    BY <1>5, <1>6 DEF InSet
  <2>5. mode'.list \in Articles => \A m \in InSet' : score'[m] = Value(m)'
    BY <1>2, <1>3, <2>3, <2>4 DEF Order, SetOK
  <2>6. ASSUME mode.list \in Follows
        PROVE  /\ \A m \in InSet' : time[m] <= score'[m] /\ score'[m] <= now
               /\ \A m \in InSet', j \in Article :
                     m # j => score'[m] # time[j] /\ (j \in InSet' => score'[m] # score'[j])
    <3>1. \A m \in InSet' : m = add.item => score'[m] = time[m]
      BY <2>4, <2>6 DEF Value, Follows
    <3>2. \A m \in InSet' : m \in Created /\ m \in Article /\ time[m] \in Nat /\ time[m] <= now
      BY <1>3, <2>1 DEF Order, RowsOK, Created, Typed
    <3>3. \A m \in InSet' : m # add.item => time[m] <= score[m] /\ score[m] <= now
      BY <2>3, <2>6 DEF Order, SetOK
    <3>4. \A m \in InSet' : time[m] <= score'[m] /\ score'[m] <= now
      BY <2>3, <3>1, <3>2, <3>3
    <3>5. ASSUME NEW m \in InSet', NEW j \in Article, m # j
          PROVE  score'[m] # time[j] /\ (j \in InSet' => score'[m] # score'[j])
      <4>1. time[m] # time[j]
        BY <3>2, <3>5, TimesDiffer DEF Order
      <4>2. m # add.item => score[m] # time[j] /\ (j \in InSet => score[m] # score[j])
        BY <2>3, <2>6, <3>5 DEF Order, SetOK
      <4>3. j \in InSet' /\ j # add.item => score[j] # time[m]
        BY <2>3, <2>6, <3>2, <3>5 DEF Order, SetOK
      <4> QED
        BY <2>3, <3>1, <3>5, <4>1, <4>2, <4>3
    <3> QED
      BY <3>4, <3>5
  <2>7. \A j \in Article : cached'[j] \in {NoLikes, likes'[j]}
    BY <1>2 DEF Order, SetOK
  <2> QED
    BY <1>2, <2>1, <2>2, <2>5, <2>6, <2>7 DEF SetOK
<1> QED
  BY <1>4, <1>7 DEF Order

LEMMA PageOrder ==
  ASSUME Typed, Order, Begin \/ HitPage \/ MissPage \/ UNCHANGED allVars
  PROVE  Order'
<1>1. UNCHANGED <<mode, count, canal, taken, likes, missed, status, time, score>> /\ now' \in {now, now + 1}
  BY DEF Begin, HitPage, MissPage, allVars, syncVars, listVars
<1>2. Created' = Created /\ \A i : Value(i)' = Value(i)
  BY <1>1 DEF Created, Value
<1>3. \A i \in Article : cached'[i] \in {NoLikes, likes[i]}
  <2>1. \A i \in Article : cached[i] \in {NoLikes, likes[i]}
    BY DEF Order, SetOK
  <2>2. CASE HitPage
    BY <2>1, <2>2 DEF HitPage, ShownValue, Value
  <2>3. CASE UNCHANGED cached
    BY <2>1, <2>3
  <2> QED
    BY <2>2, <2>3 DEF Begin, MissPage, allVars
<1>4. RowsOK' /\ SetOK'
  BY <1>1, <1>2, <1>3, RowsKept, SetKept DEF Order
<1>5. TodoOK'
  <2>1. CASE MissPage
    <3>1. PICK rows \in Rows(Request) : todo' = todo \cup Load(rows)
      BY <2>1 DEF MissPage
    <3>2. rows \subseteq Members /\ Members \subseteq Created /\ rows \subseteq Article /\ End \notin rows
      BY <3>1, ArticleFacts DEF Rows, Firsts, Members, Created
    <3>3. \A add \in Load(rows) : IF add.item = End THEN add.at = 0
                                  ELSE add.item \in Created /\ add.at = Value(add.item)
      BY <3>2 DEF Load
    <3> QED
      BY <1>2, <3>1, <3>3 DEF Order, TodoOK
  <2>2. CASE UNCHANGED todo
    BY <1>1, <1>2, <2>2, TodoKept DEF Order
  <2> QED
    BY <2>1, <2>2 DEF Begin, HitPage, allVars
<1> QED
  BY <1>4, <1>5 DEF Order

LEMMA ExpireOrder == ASSUME Typed, Order, Expire PROVE Order'
<1>1. /\ UNCHANGED <<mode, count, canal, taken, likes, missed, now, status, time, cached, todo>>
      /\ DOMAIN score' = {}
  BY DEF Expire, syncVars, EmptySet
<1>2. Created' = Created
  BY <1>1 DEF Created
<1>3. RowsOK' /\ TodoOK'
  BY <1>1, <1>2, RowsKept, TodoKept DEF Order
<1>4. SetOK'
  BY <1>1 DEF Order, SetOK, InSet
<1> QED
  BY <1>3, <1>4 DEF Order

LEMMA CourseInit == ASSUME Init PROVE Course
<1>1. /\ reader.step = "new" /\ reader.cursor = 0 /\ reader.id = 0
      /\ todo = {} /\ seen = {} /\ steady = {} /\ Pending = {}
  BY DEF Init, Unasked, Pending
<1>2. Left = Members /\ Members \subseteq Article
  BY <1>1 DEF Left, Members
<1>3. DOMAIN score = {} \/ DOMAIN score = Members \cup {End}
  BY DEF Init, EmptySet
<1> QED
  BY <1>1, <1>2, <1>3 DEF Course, LeftOK, AllIn, Behind, TopFirst, Whole, SeenAll, InSet

LEMMA JoinCourse == ASSUME Typed, Plain, Order, Course, NEW i \in Article, Joined(i) PROVE Course'
<1>1. /\ UNCHANGED <<mode, likes, todo, reader, seen, steady>> /\ Pending' = Pending
      /\ now \in Nat /\ now' = now + 1 /\ i # End
  BY ArticleFacts DEF Joined, Pending, Typed
<1>2. Members' = Members \cup {i} /\ i \notin Members
  BY DEF Joined
<1>3. LeftOK'
  BY <1>1, <1>2 DEF Course, LeftOK
<1>4. /\ DOMAIN score \subseteq DOMAIN score'
      /\ \A m \in DOMAIN score' : m # i => m \in DOMAIN score /\ score'[m] = score[m]
      /\ DOMAIN score # {} => i \in DOMAIN score' /\ score'[i] = (IF mode.list = "like_num" THEN 0 ELSE now')
      /\ DOMAIN score = {} => DOMAIN score' = {}
  <2>1. CASE DOMAIN score = {} /\ score' = score
    BY <2>1
  <2>2. CASE ~(DOMAIN score = {} /\ score' = score)
    BY <2>2 DEF Joined
  <2> QED
    BY <2>1, <2>2
<1>5. /\ reader.step = "new" => Left = Members /\ Left' = Members \cup {i}
      /\ reader.step # "new" => Left' = Left /\ i \notin Left
  BY <1>1, <1>2 DEF Left, Course, LeftOK
<1>6. AllIn'
  <2>1. End \in Pending => reader.step # "new"
    BY DEF Course, LeftOK, Pending
  <2>2. End \in DOMAIN score' => End \in DOMAIN score
    BY <1>1, <1>4
  <2> QED
    BY <1>1, <1>4, <1>5, <2>1, <2>2 DEF Course, AllIn
<1>7. \A j \in Left' : j # i => j \in Left /\ j \in Article /\ Value(j)' = Value(j) /\ Value(j) \in Nat /\ Value(j) <= Ceiling
  <2>1. Left \subseteq Article
    BY DEF Left, Typed, Members
  <2>2. \A j \in Article : j # i => Value(j)' = Value(j)
    BY DEF Joined, Value, Typed
  <2>3. \A j \in Article : Value(j) \in Nat /\ Value(j) <= Ceiling
    <3>1. \A j \in Article : time[j] \in 0 .. now /\ likes[j] \in 0 .. MaxLikes
      BY DEF Typed
    <3> QED
      BY <1>1, <3>1 DEF Value, Ceiling
  <2> QED
    BY <1>5, <2>1, <2>2, <2>3
<1>8. Behind'
  <2> SUFFICES ASSUME mode.list # "follow", reader.step # "new", NEW j \in Left'
               PROVE  /\ Value(j)' < Request'.cursor /\ Value(j)' < Ceiling'
                      /\ j \in DOMAIN score' => score'[j] < Request'.cursor /\ score'[j] < Ceiling'
    BY <1>1 DEF Behind
  <2>1. j \in Left /\ j # i /\ Value(j)' = Value(j) /\ Value(j) \in Nat
    BY <1>5, <1>7
  <2>2. /\ Value(j) < Request.cursor /\ Value(j) < Ceiling
        /\ j \in DOMAIN score => score[j] < Request.cursor /\ score[j] < Ceiling /\ score[j] \in Nat
    BY <2>1 DEF Course, Behind, Typed
  <2>3. Ceiling \in Nat /\ Ceiling' \in Nat /\ Ceiling <= Ceiling'
    BY <1>1 DEF Ceiling
  <2>4. Request.cursor \in Nat /\ Request'.cursor \in Nat /\ Request.cursor <= Request'.cursor
    BY <1>1 DEF Request, Typed
  <2>5. j \in DOMAIN score' => j \in DOMAIN score /\ score'[j] = score[j]
    BY <1>4, <2>1
  <2> QED
    BY <2>1, <2>2, <2>3, <2>4, <2>5
<1>9. TopFirst'
  <2> SUFFICES ASSUME mode.list # "follow", NEW j \in Left' \ DOMAIN score'
               PROVE  /\ \A m \in InSet' : score'[m] > 0 => score'[m] >= Value(j)'
                      /\ j \in Pending \/ \A add \in todo : add.item # End => add.at >= Value(j)'
    BY <1>1 DEF TopFirst
  <2>1. CASE DOMAIN score = {}
    <3>1. InSet' = {}
      BY <1>4, <2>1 DEF InSet
    <3>2. CASE j = i
      <4>1. todo = {}
        BY <1>5, <3>2 DEF Course, LeftOK
      <4> QED
        BY <3>1, <4>1
    <3>3. CASE j # i
      BY <1>7, <2>1, <3>1, <3>3 DEF Course, TopFirst
    <3> QED
      BY <3>2, <3>3
  <2>2. CASE DOMAIN score # {}
    <3>1. j # i /\ j \in Left \ DOMAIN score /\ Value(j)' = Value(j) /\ Value(j) \in Nat /\ Value(j) <= Ceiling
      BY <1>4, <1>7, <2>2
    <3>2. /\ \A m \in InSet : score[m] > 0 => score[m] >= Value(j)
          /\ j \in Pending \/ \A add \in todo : add.item # End => add.at >= Value(j)
      BY <3>1 DEF Course, TopFirst
    <3>3. \A m \in InSet' : m # i => m \in InSet /\ score'[m] = score[m]
      BY <1>4 DEF InSet
    <3>4. score'[i] > 0 => score'[i] >= Value(j)
      BY <1>1, <1>4, <2>2, <3>1 DEF Ceiling
    <3> QED
      BY <3>1, <3>2, <3>3, <3>4
  <2> QED
    BY <2>1, <2>2
<1>10. Whole'
  BY <1>1, <1>4 DEF Course, Whole
<1>11. SeenAll'
  BY <1>1, <1>5 DEF Course, SeenAll
<1> QED
  BY <1>3, <1>6, <1>8, <1>9, <1>10, <1>11 DEF Course

LEMMA LeaveCourse == ASSUME Typed, Order, Course, NEW i \in Article, Leave(i) PROVE Course'
<1>1. UNCHANGED <<mode, likes, now, time, todo, reader, seen>> /\ Pending' = Pending /\ i # End
  BY ArticleFacts DEF Leave, Changing, syncVars, Pending
<1>2. /\ Members' = Members \ {i} /\ steady' = steady \ {i} /\ Left' = Left \ {i}
  BY DEF Leave, Changing, Members, Left, Typed
<1>3. /\ DOMAIN score' = DOMAIN score \ {i} /\ InSet' = InSet \ {i}
      /\ \A m \in DOMAIN score' : score'[m] = score[m]
  BY DEF Leave, Without, Restrict, InSet
<1>4. \A j : Value(j)' = Value(j)
  BY <1>1 DEF Value
<1>5. Request' = Request /\ Ceiling' = Ceiling
  BY <1>1 DEF Request, Ceiling
<1>6. LeftOK' /\ AllIn' /\ Whole' /\ SeenAll'
  BY <1>1, <1>2, <1>3 DEF Course, LeftOK, AllIn, Whole, SeenAll
<1>7. Behind'
  BY <1>1, <1>2, <1>3, <1>4, <1>5 DEF Course, Behind
<1>8. TopFirst'
  <2>1. \A m \in InSet' : m \in InSet /\ m \in DOMAIN score'
    BY <1>3 DEF InSet
  <2> QED
    BY <1>1, <1>2, <1>3, <1>4, <2>1 DEF Course, TopFirst
<1> QED
  BY <1>6, <1>7, <1>8 DEF Course

LEMMA BeginCourse == ASSUME Typed, Order, Course, Begin PROVE Course'
<1>1. /\ UNCHANGED <<mode, likes, time, status, score, todo, seen>> /\ Pending' = Pending /\ Members' = Members
      /\ reader.step = "new" /\ reader'.step = "asks" /\ reader'.cursor = reader.cursor /\ reader'.id = reader.id
      /\ steady' = Members /\ now' = now + 1 /\ now \in Nat
  BY DEF Begin, syncVars, Pending, Members, Typed
<1>2. Left' = Left /\ Left = Members /\ Left \subseteq Article
  BY <1>1 DEF Left, Course, LeftOK, Members
<1>3. \A j : Value(j)' = Value(j)
  BY <1>1 DEF Value
<1>4. InSet' = InSet
  BY <1>1 DEF InSet
<1>5. LeftOK' /\ AllIn' /\ Whole' /\ SeenAll'
  BY <1>1, <1>2 DEF Course, LeftOK, AllIn, Whole, SeenAll
<1>6. TopFirst'
  BY <1>1, <1>2, <1>3, <1>4 DEF Course, TopFirst
<1>7. Request'.cursor = Ceiling'
  BY <1>1 DEF Request, Ceiling, Course, LeftOK, Typed
<1>8. \A j \in Article : Value(j) < Ceiling'
  <2>1. \A j \in Article : time[j] \in 0 .. now /\ likes[j] \in 0 .. MaxLikes
    BY DEF Typed
  <2> QED
    BY <1>1, <2>1 DEF Value, Ceiling
<1>9. \A j \in Article : j \in DOMAIN score => score[j] < Ceiling'
  <2> SUFFICES ASSUME NEW j \in Article, j \in DOMAIN score PROVE score[j] < Ceiling'
    OBVIOUS
  <2>1. j \in InSet /\ score[j] \in Nat
    BY ArticleFacts DEF InSet, Typed
  <2>2. CASE mode.list \in Articles
    BY <1>8, <2>1, <2>2 DEF Order, SetOK
  <2>3. CASE mode.list \in Follows
    BY <1>1, <2>1, <2>3 DEF Order, SetOK, Ceiling, Follows
  <2> QED
    BY <2>2, <2>3, ModeFacts DEF Articles, Follows, Typed
<1>10. Behind'
  BY <1>1, <1>2, <1>3, <1>7, <1>8, <1>9 DEF Behind
<1> QED
  BY <1>5, <1>6, <1>10 DEF Course

LEMMA FillCourse == ASSUME Typed, Order, Course, Fill PROVE Course'
<1>1. PICK add \in todo :
         /\ \A other \in todo \ {add} : other.item = End \/ (add.item # End /\ add.at >= other.at)
         /\ score' = With(add.item, add.at) /\ todo' = todo \ {add}
  BY DEF Fill
<1>2. UNCHANGED <<mode, likes, now, status, time, reader, seen, steady>>
  BY DEF Fill, syncVars
<1>3. /\ Members' = Members /\ Left' = Left /\ Request' = Request /\ Ceiling' = Ceiling
      /\ \A j : Value(j)' = Value(j)
  BY <1>2 DEF Members, Left, Request, Ceiling, Value
<1>4. /\ DOMAIN score' = DOMAIN score \cup {add.item}
      /\ \A m \in DOMAIN score' : score'[m] = IF m = add.item THEN add.at ELSE score[m]
  BY <1>1 DEF With
<1>5. add.item \in Pending /\ Pending \subseteq Pending' \cup {add.item} /\ Pending' \subseteq Pending
  BY <1>1 DEF Pending
<1>6. Left \subseteq Article /\ End \notin Left /\ \A j \in Left : Value(j) \in Nat
  BY ValueTypes, ArticleFacts DEF Left, Members, Typed
<1>7. add.at \in Nat /\ IF add.item = End THEN add.at = 0 ELSE add.item \in Created /\ add.at = Value(add.item)
  BY DEF Order, TodoOK, Typed
<1>8. LeftOK' /\ Whole' /\ SeenAll'
  BY <1>1, <1>2, <1>3 DEF Course, LeftOK, Whole, SeenAll
<1>9. AllIn'
  <2>1. End \in Pending' => Left' \subseteq DOMAIN score' \cup Pending'
    BY <1>3, <1>4, <1>5 DEF Course, AllIn
  <2>2. CASE End \in DOMAIN score
    BY <1>3, <1>4, <2>1, <2>2 DEF Course, AllIn
  <2>3. CASE End \notin DOMAIN score /\ End \in DOMAIN score'
    <3>1. add.item = End
      BY <1>4, <2>3
    <3>2. \A other \in todo : other.item = End
      BY <1>1, <3>1
    <3>3. Pending \subseteq {End}
      BY <3>2 DEF Pending
    <3>4. Left \subseteq DOMAIN score \cup Pending
      BY <1>5, <3>1 DEF Course, AllIn
    <3> QED
      BY <1>3, <1>4, <1>6, <2>1, <3>1, <3>3, <3>4 DEF AllIn
  <2>4. CASE End \notin DOMAIN score'
    BY <2>1, <2>4 DEF AllIn
  <2> QED
    BY <1>4, <2>2, <2>3, <2>4
<1>10. Behind'
  <2> SUFFICES ASSUME mode.list # "follow", reader.step # "new", NEW j \in Left
               PROVE  /\ Value(j) < Request.cursor /\ Value(j) < Ceiling
                      /\ j \in DOMAIN score' => score'[j] < Request.cursor /\ score'[j] < Ceiling
    BY <1>2, <1>3 DEF Behind
  <2>1. /\ Value(j) < Request.cursor /\ Value(j) < Ceiling
        /\ j \in DOMAIN score => score[j] < Request.cursor /\ score[j] < Ceiling
    BY DEF Course, Behind
  <2>2. j = add.item => add.at = Value(j)
    BY <1>6, <1>7
  <2> QED
    BY <1>4, <2>1, <2>2
<1>11. TopFirst'
  <2> SUFFICES ASSUME mode.list # "follow", NEW j \in Left \ DOMAIN score'
               PROVE  /\ \A m \in InSet' : score'[m] > 0 => score'[m] >= Value(j)
                      /\ j \in Pending' \/ \A a \in todo' : a.item # End => a.at >= Value(j)
    BY <1>2, <1>3 DEF TopFirst
  <2>1. j # add.item /\ j \in Left \ DOMAIN score
    BY <1>4
  <2>2. /\ \A m \in InSet : score[m] > 0 => score[m] >= Value(j)
        /\ j \in Pending \/ \A a \in todo : a.item # End => a.at >= Value(j)
    BY <2>1 DEF Course, TopFirst
  <2>3. add.item # End => add.at >= Value(j)
    <3>1. CASE j \in Pending
      <4>1. PICK other \in todo : other.item = j
        BY <3>1 DEF Pending
      <4>2. other.at = Value(j) /\ other # add /\ other.item # End
        BY <1>6, <2>1, <4>1 DEF Order, TodoOK
      <4> QED
        BY <1>1, <4>1, <4>2
    <3>2. CASE j \notin Pending
      BY <2>2, <3>2
    <3> QED
      BY <3>1, <3>2
  <2>4. \A m \in InSet' : m # add.item => m \in InSet /\ score'[m] = score[m]
    BY <1>4 DEF InSet
  <2>5. \A m \in InSet' : m = add.item => m # End /\ score'[m] = add.at
    BY <1>4 DEF InSet
  <2> QED
    BY <1>1, <1>5, <2>1, <2>2, <2>3, <2>4, <2>5
<1> QED
  BY <1>8, <1>9, <1>10, <1>11 DEF Course

LEMMA ExpireCourse == ASSUME Typed, Course, Expire PROVE Course'
<1>1. /\ UNCHANGED <<mode, likes, now, status, time, todo, reader, seen, steady>>
      /\ todo = {} /\ DOMAIN score' = {} /\ Pending' = {}
  BY DEF Expire, syncVars, EmptySet, Pending
<1>2. /\ Members' = Members /\ Left' = Left /\ Request' = Request /\ Ceiling' = Ceiling /\ InSet' = {}
      /\ \A j : Value(j)' = Value(j)
  BY <1>1 DEF Members, Left, Request, Ceiling, Value, InSet
<1> QED
  BY <1>1, <1>2 DEF Course, LeftOK, AllIn, Behind, TopFirst, Whole, SeenAll

\* Of follows, a page of the set is all of it and the end.
LEMMA HitFollows ==
  ASSUME Typed, Plain, Order, Course, HitPage, mode.list = "follow"
  PROVE  reader'.step = "done" /\ Left \subseteq seen'
<1> DEFINE page == Window(Request.cursor)
<1>1. page # {} /\ reader.step = "asks"
  BY DEF HitPage
<1>2. page \subseteq DOMAIN score /\ FirstOf(page, Below(Request.cursor), PlaceAt, mode.size)
      /\ IsFiniteSet(Below(Request.cursor))
  BY WindowFirst DEF FirstOf, Below
<1>3. reader.cursor = 0 /\ reader.id = 0 /\ End \in DOMAIN score
  BY <1>1, <1>2 DEF Course, Whole
<1>4. Request.cursor = now /\ Request.id = 0
  BY <1>3 DEF Request, Typed
<1>5. \A m \in DOMAIN score : score[m] <= now
  <2>1. 0 <= now
    BY DEF Typed
  <2> QED
    BY <2>1 DEF Order, SetOK, InSet, Follows
<1>6. Below(Request.cursor) = DOMAIN score
  BY <1>4, <1>5 DEF Below
<1>7. Cardinality(DOMAIN score) <= mode.size
  <2>1. Cardinality(Article \cup {End}) = Cardinality(Article) + 1 /\ IsFiniteSet(Article \cup {End})
    BY PagingAssumption, FS_AddElement
  <2>2. DOMAIN score \in SUBSET (Article \cup {End})
    BY DEF Typed
  <2>3. Cardinality(DOMAIN score) <= Cardinality(Article) + 1 /\ Cardinality(DOMAIN score) \in Nat
    BY <2>1, <2>2, ArticleFacts, FS_Subset, FS_CardinalityType
  <2>4. Cardinality(Article) < mode.size /\ mode.size \in Nat /\ Cardinality(Article) \in Nat
    BY ModeFacts, ArticleFacts DEF Plain, Typed
  <2> QED
    BY <2>3, <2>4
<1>8. page = DOMAIN score
  BY <1>2, <1>6, <1>7, FirstFacts, ModeFacts DEF Typed
<1>9. PICK reply : Take(reply) /\ Answer(reply, page \ {End}, NoRank, time, End \in page, Request)
  BY HitAnswer
<1>10. reply.isEnd /\ \A i \in page \ {End} : i \in reply.items
  <2>1. 0 \notin page \ {End}
    BY <1>8, ArticleFacts DEF Typed
  <2> QED
    BY <1>3, <1>4, <1>8, <1>9, <2>1 DEF Answer
<1>11. Left \subseteq page \ {End}
  <2>1. End \notin Left
    BY ArticleFacts DEF Left, Members, Typed
  <2> QED
    BY <1>3, <1>8, <2>1 DEF Course, AllIn
<1> QED
  BY <1>9, <1>10, <1>11 DEF Take

\* Of the others, a reply has the cursor of a member of the page, and leaves none of it
\* out that is behind the cursor asked for.
LEMMA HitReply ==
  ASSUME Typed, Order, HitPage, mode.list # "follow", NEW page, page = Window(Request.cursor)
  PROVE  \/ NoReplyTaken
         \/ \E reply : /\ Take(reply)
                       /\ IF End \in page THEN reply.isEnd ELSE ~reply.isEnd
                       /\ reply.items \subseteq page \ {End}
                       /\ page \ {End} = {} => reply.cursor = 0
                       /\ page \ {End} # {} => \E last \in page \ {End} : reply.cursor = score[last]
                       /\ \A i \in (page \ {End}) \ reply.items : score[i] >= Request.cursor
<1> DEFINE ids == page \ {End}
<1>1. ids \subseteq Article /\ ids \subseteq DOMAIN score /\ ids \subseteq InSet
  BY HitAnswer DEF InSet
<1>2. CASE NoReplyTaken
  BY <1>2
<1>3. CASE ~NoReplyTaken
  <2>1. PICK reply :
           /\ Take(reply)
           /\ mode.list = "fans" => Answer(reply, ids, PlaceAt, score, End \in page, Request)
           /\ mode.list \in Articles => Answer(reply, ids, ShownAt, ShownAt, End \in page, Request)
    BY <1>3, HitAnswer
  <2>2. CASE mode.list = "fans"
    <3>1. Answer(reply, ids, PlaceAt, score, End \in page, Request)
      BY <2>1, <2>2
    <3>2. \A i \in ids \ reply.items : Request.id \in ids /\ score[Request.id] = Request.cursor /\ Place(i) >= Place(Request.id)
      BY <1>1, <3>1 DEF Answer, PlaceAt
    <3>3. \A i \in ids \ reply.items : score[i] >= Request.cursor
      BY <1>1, <3>2, Places DEF Order
    <3>4. /\ IF End \in page THEN reply.isEnd ELSE ~reply.isEnd
          /\ reply.items \subseteq ids
          /\ ids = {} => reply.cursor = 0
          /\ ids # {} => \E last \in ids : reply.cursor = score[last]
      BY <3>1 DEF Answer
    <3> QED
      BY <2>1, <3>3, <3>4
  <2>3. CASE mode.list \in Articles
    <3>1. Answer(reply, ids, ShownAt, ShownAt, End \in page, Request)
      BY <2>1, <2>3
    <3>2. \A i \in ids : ShownAt[i] = score[i]
      BY <1>1, <2>3 DEF Order, SetOK, ShownAt, ShownValue, Value
    <3>3. \A i \in ids \ reply.items : score[i] >= Request.cursor
      BY <3>1, <3>2 DEF Answer
    <3>4. /\ IF End \in page THEN reply.isEnd ELSE ~reply.isEnd
          /\ reply.items \subseteq ids
          /\ ids = {} => reply.cursor = 0
          /\ ids # {} => \E last \in ids : reply.cursor = score[last]
      BY <3>1, <3>2 DEF Answer
    <3> QED
      BY <2>1, <3>3, <3>4
  <2> QED
    BY <2>2, <2>3, ModeFacts DEF Articles, Typed
<1> QED
  BY <1>2, <1>3

\* What follows the page is behind its last member.
LEMMA HitBehind ==
  ASSUME Typed, Order, Course, HitPage, mode.list # "follow"
  PROVE  Behind' /\ SeenAll'
<1> DEFINE page == Window(Request.cursor)
<1>1. /\ UNCHANGED <<mode, likes, now, status, time, score, steady>> /\ reader.step = "asks" /\ page # {}
  BY DEF HitPage, syncVars, listVars
<1>2. Ceiling' = Ceiling /\ \A j : Value(j)' = Value(j)
  BY <1>1 DEF Ceiling, Value
<1>3. Left = steady \ seen /\ Left \subseteq Created /\ Left \subseteq Article /\ End \notin Left
  BY <1>1, ArticleFacts DEF Left, Course, LeftOK, Members, Created, Typed
<1>4. /\ page \subseteq Below(Request.cursor)
      /\ \A i \in page, j \in Below(Request.cursor) \ page : Place(i) >= Place(j)
  BY WindowFirst DEF FirstOf, PlaceAt, Below
<1>5. ASSUME NEW i \in Left
      PROVE  /\ Value(i) < Request.cursor /\ Value(i) < Ceiling /\ Value(i) \in Nat
             /\ i \in DOMAIN score => /\ score[i] < Request.cursor /\ score[i] < Ceiling /\ score[i] \in Nat
                                      /\ i \in InSet /\ i \in Below(Request.cursor)
  <2>1. /\ Value(i) < Request.cursor /\ Value(i) < Ceiling
        /\ i \in DOMAIN score => score[i] < Request.cursor /\ score[i] < Ceiling
    BY <1>1 DEF Course, Behind
  <2>2. Value(i) \in Nat /\ Request.cursor \in Nat /\ (i \in DOMAIN score => score[i] \in Nat)
    BY <1>3, ValueTypes
  <2> QED
    BY <1>3, <2>1, <2>2 DEF InSet, Below
<1>6. CASE NoReplyTaken
  <2>1. Left' = Left /\ reader'.step = "asks" /\ reader'.cursor = 0
    BY <1>1, <1>3, <1>6 DEF NoReplyTaken, Left
  <2>2. Request'.cursor = Ceiling
    BY <1>1, <1>6 DEF Request, Ceiling, NoReplyTaken
  <2> QED
    BY <1>1, <1>2, <1>5, <2>1, <2>2 DEF Behind, SeenAll
<1>7. ASSUME NEW reply, Take(reply),
             IF End \in page THEN reply.isEnd ELSE ~reply.isEnd,
             reply.items \subseteq page \ {End},
             page \ {End} = {} => reply.cursor = 0,
             page \ {End} # {} => \E last \in page \ {End} : reply.cursor = score[last],
             \A i \in (page \ {End}) \ reply.items : score[i] >= Request.cursor
      PROVE  Behind' /\ SeenAll'
  <2>1. /\ seen' = seen \cup reply.items /\ reader'.cursor = reply.cursor
        /\ reader'.step = IF reply.isEnd THEN "done" ELSE "asks"
    BY <1>7 DEF Take
  <2>2. Left' = Left \ reply.items
    BY <1>1, <1>3, <2>1 DEF Left
  <2>3. \A i \in Left' : i \notin page
    <3> SUFFICES ASSUME NEW i \in Left', i \in page PROVE FALSE
      OBVIOUS
    <3>1. i \in Left /\ i \in (page \ {End}) \ reply.items /\ i \in DOMAIN score
      BY <1>3, <1>4, <2>2 DEF Below
    <3>2. score[i] < Request.cursor /\ score[i] \in Nat /\ Request.cursor \in Nat
      BY <1>5, <3>1, ValueTypes
    <3> QED
      BY <1>7, <3>1, <3>2
  <2>4. ASSUME End \in page, NEW i \in Left' PROVE FALSE
    <3>1. End \in DOMAIN score
      BY <1>4, <2>4 DEF Below
    <3>2. i \in Left /\ i \in DOMAIN score /\ i \in InSet /\ i \in Below(Request.cursor) \ page
      BY <1>5, <2>2, <2>3, <2>4, <3>1 DEF Course, AllIn
    <3>3. Place(End) >= Place(i) /\ Place(i) > Place(End)
      BY <1>4, <2>4, <3>1, <3>2, Places DEF Order
    <3>4. Place(End) \in Nat /\ Place(i) \in Nat
      BY <3>1, <3>2, ValueTypes
    <3> QED
      BY <3>3, <3>4
  <2>5. SeenAll'
    BY <1>7, <2>1, <2>4 DEF SeenAll
  <2>6. ASSUME NEW i \in Left', NEW last \in page \ {End}, score[last] > 0
        PROVE  Value(i) < score[last] /\ (i \in DOMAIN score => score[i] < score[last])
    <3>1. last \in InSet /\ last \in DOMAIN score /\ score[last] \in Nat /\ i \in Left /\ i # last /\ i \in Created
      BY <1>3, <1>4, <2>2, <2>3, ValueTypes DEF InSet, Below
    <3>2. CASE i \in DOMAIN score
      <4>1. i \in InSet /\ i \in Below(Request.cursor) \ page /\ score[i] \in Nat /\ Value(i) \in Nat
        BY <1>5, <2>3, <3>1, <3>2
      <4>2. score[last] >= score[i]
        BY <1>4, <3>1, <3>2, <4>1, Places DEF Order
      <4>3. score[last] > score[i] /\ Value(i) <= score[i]
        BY <2>6, <3>1, <4>1, <4>2, Orders DEF Order
      <4> QED
        BY <3>1, <4>1, <4>3
    <3>3. CASE i \notin DOMAIN score
      <4>1. score[last] >= Value(i)
        BY <2>6, <3>1, <3>3 DEF Course, TopFirst
      <4>2. score[last] > Value(i)
        BY <2>6, <3>1, <4>1, Orders DEF Order
      <4> QED
        BY <1>5, <3>1, <3>3, <4>2
    <3> QED
      BY <3>2, <3>3
  <2>7. ASSUME NEW i \in Left'
        PROVE  Value(i) < Request'.cursor /\ (i \in DOMAIN score => score[i] < Request'.cursor)
    <3>1. reply.cursor = 0 => Request'.cursor = Ceiling
      BY <1>1, <2>1 DEF Request, Ceiling, Take
    <3>2. reply.cursor # 0 => Request'.cursor = reply.cursor
      BY <1>1, <2>1, <1>7 DEF Request, Take
    <3>3. i \in Left
      BY <2>2
    <3>4. CASE reply.cursor = 0
      BY <1>5, <3>1, <3>3, <3>4
    <3>5. CASE reply.cursor # 0
      <4>1. PICK last \in page \ {End} : reply.cursor = score[last]
        BY <1>7, <3>5
      <4>2. score[last] > 0
        BY <1>4, <3>5, <4>1, ValueTypes DEF Below
      <4> QED
        BY <2>6, <3>2, <3>5, <4>1, <4>2
    <3> QED
      BY <3>4, <3>5
  <2>8. Behind'
    BY <1>1, <1>2, <1>5, <2>2, <2>7 DEF Behind
  <2> QED
    BY <2>5, <2>8
<1> QED
  BY <1>6, <1>7, HitReply

\* The order of the rows is that of their values.
LEMMA RankOfValue ==
  ASSUME Typed, RowsOK, NEW k \in Created, NEW i \in Created, RowRank(k) >= RowRank(i), i # k
  PROVE  Value(k) >= Value(i)
<1>1. CASE mode.list \in Articles
  BY <1>1 DEF RowRank, Articles, Follows
<1>2. CASE mode.list \in Follows
  <2>1. k > i /\ i \in Nat /\ k \in Nat /\ i \in Article /\ k \in Article
    BY <1>2, ArticleFacts DEF RowRank, Created
  <2>2. time[i] < time[k] /\ time[i] \in Nat /\ time[k] \in Nat
    BY <2>1 DEF RowsOK, Typed
  <2> QED
    BY <1>2, <2>2 DEF Value, Follows
<1> QED
  BY <1>1, <1>2, ModeFacts DEF Articles, Follows, Typed

LEMMA HitCourse == ASSUME Typed, Plain, Order, Course, HitPage PROVE Course'
<1>1. /\ UNCHANGED <<mode, likes, now, status, time, score, todo, steady>>
      /\ reader.step = "asks" /\ reader'.step \in {"asks", "done"} /\ seen \subseteq seen'
  BY DEF HitPage, Take, syncVars, listVars
<1>2. /\ Members' = Members /\ InSet' = InSet /\ Pending' = Pending /\ Left' \subseteq Left
      /\ \A j : Value(j)' = Value(j)
  BY <1>1 DEF Members, InSet, Pending, Value, Left
<1>3. LeftOK' /\ AllIn'
  BY <1>1, <1>2 DEF Course, LeftOK, AllIn
<1>4. TopFirst'
  BY <1>1, <1>2 DEF Course, TopFirst
<1>5. CASE mode.list = "follow"
  <2>1. reader'.step = "done" /\ Left' = {}
    BY <1>1, <1>5, HitFollows DEF Left
  <2> QED
    BY <1>1, <1>3, <1>4, <1>5, <2>1 DEF Course, Behind, Whole, SeenAll
<1>6. CASE mode.list # "follow"
  <2>1. Whole'
    BY <1>1, <1>6 DEF Whole
  <2> QED
    BY <1>3, <1>4, <1>6, <2>1, HitBehind DEF Course
<1> QED
  BY <1>5, <1>6

\* The rows are what the reader is still to see, first of all, unless the load is cut.
LEMMA MissRows ==
  ASSUME Typed, Order, Course, MissPage, NEW rows \in Rows(Request)
  PROVE  /\ Left \subseteq Asked(Request) /\ rows \subseteq Asked(Request)
         /\ Cardinality(rows) < mode.max => rows = Asked(Request)
         /\ Cardinality(rows) \in Nat /\ Cardinality(Asked(Request)) \in Nat
         /\ rows = {} => Asked(Request) = {}
         /\ \A i \in Asked(Request) \ rows, k \in rows : Value(k) >= Value(i)
<1>1. Left \subseteq Asked(Request)
  <2>1. reader.step = "asks" /\ Left \subseteq Members
    BY DEF MissPage, Left, Course, LeftOK
  <2>2. CASE mode.list \in Follows
    BY <2>1, <2>2 DEF Asked
  <2>3. CASE mode.list \in Articles
    BY <2>1, <2>3 DEF Asked, Course, Behind, Articles
  <2> QED
    BY <2>2, <2>3, ModeFacts DEF Articles, Follows, Typed
<1>2. /\ IsFiniteSet(Asked(Request)) /\ IsFiniteSet(rows) /\ rows \subseteq Article
      /\ FirstOf(rows, Asked(Request), RowRankAt, mode.max) /\ mode.max \in Nat \ {0}
  BY RowsFirst, ModeFacts DEF Typed
<1>3. /\ Cardinality(rows) \in Nat /\ Cardinality(Asked(Request)) \in Nat
      /\ Cardinality(rows) = IF Cardinality(Asked(Request)) < mode.max THEN Cardinality(Asked(Request)) ELSE mode.max
      /\ rows \subseteq Asked(Request)
  BY <1>2, FS_CardinalityType DEF FirstOf
<1>4. Cardinality(Asked(Request)) <= mode.max => rows = Asked(Request)
  BY <1>2, FirstFacts
<1>7. Cardinality(rows) < mode.max => rows = Asked(Request)
  BY <1>2, <1>3, <1>4
<1>5. rows = {} => Asked(Request) = {}
  BY <1>2, FirstFacts
<1>6. ASSUME NEW i \in Asked(Request) \ rows, NEW k \in rows PROVE Value(k) >= Value(i)
  <2>1. i \in Article /\ k \in Article /\ i \in Created /\ k \in Created /\ i # k
    BY <1>3 DEF Asked, Members, Created
  <2>2. RowRank(k) >= RowRank(i)
    BY <1>2, <2>1 DEF FirstOf, RowRankAt
  <2> QED
    BY <2>1, <2>2, RankOfValue DEF Order
<1> QED
  BY <1>1, <1>3, <1>5, <1>6, <1>7

\* What the page of rows does not show is behind its last row.
LEMMA MissBehind ==
  ASSUME Typed, Plain, Order, Course, MissPage
  PROVE  /\ mode.list # "follow" => Behind'
         /\ SeenAll'
         /\ mode.list = "follow" => (reader'.step = "done" \/ (NoReplyTaken /\ todo' = todo))
<1>1. /\ UNCHANGED <<mode, likes, now, status, time, score, steady>> /\ reader.step = "asks"
      /\ Window(Request.cursor) = {}
  BY DEF MissPage, syncVars, listVars, Plain
<1>2. Ceiling' = Ceiling /\ \A j : Value(j)' = Value(j)
  BY <1>1 DEF Ceiling, Value
<1>3. Left = steady \ seen /\ Left \subseteq Created /\ Left \subseteq Article /\ End \notin Left
  BY <1>1, ArticleFacts DEF Left, Course, LeftOK, Members, Created, Typed
<1>4. mode.list # "follow" => \A i \in Left : /\ Value(i) < Request.cursor /\ Value(i) < Ceiling
                                              /\ i \notin DOMAIN score
  <2>1. Below(Request.cursor) = {}
    BY <1>1, WindowFirst, FirstFacts, ModeFacts DEF Typed
  <2> SUFFICES ASSUME mode.list # "follow", NEW i \in Left
               PROVE  Value(i) < Request.cursor /\ Value(i) < Ceiling /\ i \notin DOMAIN score
    OBVIOUS
  <2>2. /\ Value(i) < Request.cursor /\ Value(i) < Ceiling
        /\ i \in DOMAIN score => score[i] < Request.cursor
    BY <1>1 DEF Course, Behind
  <2>3. i \in DOMAIN score => score[i] \in Nat /\ Request.cursor \in Nat
    BY ValueTypes
  <2> QED
    BY <2>1, <2>2, <2>3 DEF Below
<1>5. PICK rows \in Rows(Request) :
           /\ todo' = todo \cup Load(rows)
           /\ rows = {} /\ mode.list \in Follows => NoReplyTaken
           /\ ~(rows = {} /\ mode.list \in Follows) =>
                \E page \in SUBSET rows : \E reply :
                  /\ Take(reply) /\ FirstOf(page, rows, RowRankAt, mode.size)
                  /\ Answer(reply, page, RowRankAt, ValueAt, Cardinality(rows) <= mode.size, Request)
  BY MissAnswer
<1>6. CASE rows = {} /\ mode.list \in Follows
  <2>1. Left' = Left /\ reader'.step = "asks" /\ reader'.cursor = 0 /\ NoReplyTaken
    BY <1>1, <1>3, <1>5, <1>6 DEF NoReplyTaken, Left
  <2>2. Request'.cursor = Ceiling
    BY <1>1, <2>1 DEF Request, Ceiling, NoReplyTaken
  <2>3. todo' = todo
    BY <1>5, <1>6 DEF Load
  <2>4. Left = {}
    BY <1>6, MissRows
  <2> QED
    BY <2>1, <2>3, <2>4 DEF Behind, SeenAll
<1>7. CASE ~(rows = {} /\ mode.list \in Follows)
  <2>1. PICK page \in SUBSET rows : \E reply :
                  /\ Take(reply) /\ FirstOf(page, rows, RowRankAt, mode.size)
                  /\ Answer(reply, page, RowRankAt, ValueAt, Cardinality(rows) <= mode.size, Request)
    BY <1>5, <1>7
  <2>2. PICK reply :
                  /\ Take(reply) /\ FirstOf(page, rows, RowRankAt, mode.size)
                  /\ Answer(reply, page, RowRankAt, ValueAt, Cardinality(rows) <= mode.size, Request)
    BY <2>1
  <2>3. /\ seen' = seen \cup reply.items /\ reader'.cursor = reply.cursor /\ reader'.id = reply.id
        /\ reader'.step = IF reply.isEnd THEN "done" ELSE "asks"
    BY <2>2 DEF Take
  <2>4. Left' = Left \ reply.items
    BY <1>1, <1>3, <2>3 DEF Left
  <2>5. /\ IsFiniteSet(rows) /\ rows \subseteq Article /\ mode.size \in Nat \ {0}
        /\ rows \subseteq Created
    BY RowsFirst, ModeFacts, MissRows DEF Typed, Asked, Members, Created
  <2>6. /\ rows # {} => page # {}
        /\ Cardinality(rows) <= mode.size => page = rows
    BY <2>2, <2>5, FirstFacts
  <2>7. \A i \in Left' : i \notin page
    <3> SUFFICES ASSUME NEW i \in Left', i \in page PROVE FALSE
      OBVIOUS
    <3>1. i \in Left /\ i \in page \ reply.items /\ i \in Created /\ i \in Article
      BY <1>3, <2>4
    <3>2. /\ Request.id \in page /\ Value(Request.id) = Request.cursor /\ i # Request.id
          /\ RowRank(i) >= RowRank(Request.id) /\ Request.id \in Article /\ Request.id \in Created
      BY <2>2, <2>5, <3>1 DEF Answer, ValueAt, RowRankAt
    <3>3. Value(i) \in Nat /\ Request.cursor \in Nat
      BY <3>1, ValueTypes
    <3>4. CASE mode.list \in Articles
      BY <1>4, <3>1, <3>2, <3>3, <3>4 DEF RowRank, Articles, Follows
    <3>5. CASE mode.list = "fans"
      <4>1. i > Request.id
        <5>1. i \in Nat /\ Request.id \in Nat
          BY <3>1, <3>2, ArticleFacts
        <5>2. RowRank(i) = i /\ RowRank(Request.id) = Request.id
          BY <3>5 DEF RowRank, Follows
        <5> QED
          BY <3>2, <5>1, <5>2
      <4>2. Value(Request.id) < Value(i)
        BY <3>1, <3>2, <3>5, <4>1 DEF Order, RowsOK, Value
      <4> QED
        BY <1>4, <3>1, <3>2, <3>3, <3>5, <4>2
    <3>6. CASE mode.list = "follow"
      <4>1. Request.id = 0
        BY <1>1, <3>6, ValueTypes DEF Course, Whole
      <4> QED
        BY <3>2, <4>1, ArticleFacts
    <3> QED
      BY <3>4, <3>5, <3>6, ModeFacts DEF Articles, Typed
  <2>8. Cardinality(rows) <= mode.size => rows = Asked(Request)
    <3>1. CASE mode.size < mode.max
      BY <2>5, <3>1, MissRows, ModeFacts DEF Typed
    <3>2. CASE Cardinality(Article) < mode.max
      <4>1. Cardinality(rows) <= Cardinality(Article) /\ Cardinality(Article) \in Nat
        BY <2>5, PagingAssumption, ArticleFacts, FS_Subset
      <4> QED
        BY <3>2, <4>1, MissRows, ModeFacts DEF Typed
    <3> QED
      BY <3>1, <3>2 DEF Plain
  <2>9. Cardinality(rows) <= mode.size => Left' = {}
    BY <2>4, <2>6, <2>7, <2>8, MissRows
  <2>10. SeenAll'
    BY <2>2, <2>3, <2>9 DEF SeenAll, Answer
  <2>11. mode.list = "follow" => reader'.step = "done"
    <3>1. Cardinality(rows) <= Cardinality(Article) /\ Cardinality(Article) \in Nat
      BY <2>5, PagingAssumption, ArticleFacts, FS_Subset
    <3> QED
      BY <2>2, <2>3, <2>5, <3>1, MissRows DEF Plain, Answer
  <2>12. ASSUME NEW i \in Left', NEW last \in page, Value(last) > 0 PROVE Value(i) < Value(last)
    <3>1. /\ i \in Left /\ i # last /\ i \in Created /\ last \in Created /\ last \in rows
          /\ i \in Article /\ last \in Article
      BY <1>3, <2>4, <2>5, <2>7
    <3>2. Value(last) >= Value(i)
      <4>1. CASE i \notin rows
        BY <3>1, <4>1, MissRows
      <4>2. CASE i \in rows
        <5>1. RowRank(last) >= RowRank(i)
          BY <2>2, <2>7, <3>1, <4>2 DEF FirstOf, RowRankAt
        <5> QED
          BY <3>1, <5>1, RankOfValue DEF Order
      <4> QED
        BY <4>1, <4>2
    <3> QED
      BY <2>12, <3>1, <3>2, Orders DEF Order
  <2>13. ASSUME mode.list # "follow", NEW i \in Left'
        PROVE  Value(i) < Request'.cursor
    <3>1. reply.cursor = 0 => Request'.cursor = Ceiling
      BY <1>1, <2>3, <2>2 DEF Request, Ceiling, Take
    <3>2. reply.cursor # 0 => Request'.cursor = reply.cursor
      BY <1>1, <2>3, <2>2 DEF Request, Take
    <3>3. i \in Left
      BY <2>4
    <3>4. CASE reply.cursor = 0
      BY <1>4, <2>13, <3>1, <3>3, <3>4
    <3>5. CASE reply.cursor # 0
      <4>1. PICK last \in page : reply.cursor = Value(last)
        BY <2>2, <2>5, <3>5 DEF Answer, ValueAt
      <4>2. Value(last) > 0
        BY <2>5, <3>5, <4>1, ValueTypes
      <4> QED
        BY <2>12, <3>2, <3>5, <4>1, <4>2
    <3> QED
      BY <3>4, <3>5
  <2>14. mode.list # "follow" => Behind'
    BY <1>1, <1>2, <1>4, <2>4, <2>13 DEF Behind
  <2> QED
    BY <2>10, <2>11, <2>14
<1> QED
  BY <1>6, <1>7

LEMMA MissCourse == ASSUME Typed, Plain, Order, Course, MissPage PROVE Course'
<1>1. /\ UNCHANGED <<mode, likes, now, status, time, score, steady>>
      /\ reader.step = "asks" /\ reader'.step \in {"asks", "done"} /\ seen \subseteq seen'
  BY DEF MissPage, Take, syncVars, listVars
<1>2. /\ Members' = Members /\ InSet' = InSet /\ Left' \subseteq Left
      /\ \A j : Value(j)' = Value(j)
  BY <1>1 DEF Members, InSet, Value, Left
<1>3. PICK rows \in Rows(Request) : todo' = todo \cup Load(rows)
  BY DEF MissPage
<1>4. Left \subseteq Article /\ End \notin Left /\ rows \subseteq Article /\ End \notin rows
  BY <1>3, ArticleFacts, RowsFirst DEF Left, Members, Typed
<1>5. \A i \in Left : i \in rows => i \in DOMAIN score \cup Pending'
  <2> SUFFICES ASSUME NEW i \in Left, i \in rows, i \notin DOMAIN score PROVE i \in Pending'
    OBVIOUS
  <2>1. [item |-> i, at |-> Value(i)] \in Load(rows)
    BY DEF Load
  <2> QED
    BY <1>3, <2>1 DEF Pending
<1>6. Pending \subseteq Pending'
  BY <1>3 DEF Pending
<1>7. End \in Pending' => End \in Pending \/ Cardinality(rows) < mode.max
  BY <1>3, <1>4 DEF Pending, Load
<1>8. LeftOK'
  BY <1>1, <1>2 DEF Course, LeftOK
<1>9. AllIn'
  <2>1. End \in Pending' => Left \subseteq DOMAIN score \cup Pending'
    <3>1. CASE End \in Pending
      BY <1>6, <3>1 DEF Course, AllIn
    <3>2. CASE Cardinality(rows) < mode.max
      BY <1>3, <1>5, <3>2, MissRows
    <3> QED
      BY <1>7, <3>1, <3>2
  <2> QED
    BY <1>1, <1>2, <2>1 DEF Course, AllIn
<1>10. TopFirst'
  <2> SUFFICES ASSUME mode.list # "follow", NEW i \in Left \ DOMAIN score
               PROVE  /\ \A m \in InSet : score[m] > 0 => score[m] >= Value(i)
                      /\ i \in Pending' \/ \A add \in todo' : add.item # End => add.at >= Value(i)
    BY <1>1, <1>2 DEF TopFirst
  <2>1. /\ \A m \in InSet : score[m] > 0 => score[m] >= Value(i)
        /\ i \in Pending \/ \A add \in todo : add.item # End => add.at >= Value(i)
    BY DEF Course, TopFirst
  <2>2. CASE i \in rows
    BY <1>5, <2>1, <2>2
  <2>3. CASE i \notin rows
    <3>1. \A k \in rows : Value(k) >= Value(i)
      BY <1>3, <2>3, MissRows
    <3>2. \A add \in Load(rows) : add.item # End => add.at >= Value(i)
      BY <3>1 DEF Load
    <3> QED
      BY <1>3, <1>6, <2>1, <3>2
  <2> QED
    BY <2>2, <2>3
<1>11. Whole'
  <2>1. mode.list = "follow" /\ reader'.step # "done" => NoReplyTaken /\ todo' = todo
    BY MissBehind
  <2> QED
    BY <1>1, <2>1 DEF Course, Whole, NoReplyTaken
<1>12. Behind' /\ SeenAll'
  BY <1>1, MissBehind DEF Behind
<1> QED
  BY <1>8, <1>9, <1>10, <1>11, <1>12 DEF Course

LEMMA CourseKept == ASSUME Order, Course, UNCHANGED allVars PROVE Order' /\ Course'
<1>1. /\ Created' = Created /\ InSet' = InSet /\ Members' = Members /\ Left' = Left /\ Pending' = Pending
      /\ Request' = Request /\ Ceiling' = Ceiling /\ \A j : Value(j)' = Value(j)
  BY DEF allVars, syncVars, listVars, Created, InSet, Members, Left, Pending, Request, Ceiling, Value
<1>2. Order'
  BY <1>1 DEF allVars, syncVars, listVars, Order, RowsOK, SetOK, TodoOK
<1>3. Course'
  BY <1>1 DEF allVars, syncVars, listVars, Course, LeftOK, AllIn, Behind, TopFirst, Whole, SeenAll
<1> QED
  BY <1>2, <1>3

LEMMA PageNext == ASSUME Typed, PageInv, [Next]_allVars PROVE PageInv'
<1>1. mode' = mode
  BY DEF Next, allVars, Join, Leave, Changing, Begin, HitPage, MissPage, Fill, LoseLoad, Expire, Sync
<1>2. SUFFICES ASSUME Plain PROVE Order' /\ Course'
  BY <1>1 DEF PageInv, Plain
<1>3. Order /\ Course
  BY <1>2 DEF PageInv
<1>4. ASSUME NEW i \in Article, Join(i) PROVE Order' /\ Course'
  BY <1>2, <1>3, <1>4, JoinFacts, JoinOrder, JoinCourse
<1>5. ASSUME NEW i \in Article, Leave(i) PROVE Order' /\ Course'
  BY <1>3, <1>5, LeaveOrder, LeaveCourse
<1>6. CASE Begin
  BY <1>3, <1>6, PageOrder, BeginCourse
<1>7. CASE HitPage
  BY <1>2, <1>3, <1>7, PageOrder, HitCourse
<1>8. CASE MissPage
  BY <1>2, <1>3, <1>8, PageOrder, MissCourse
<1>9. CASE Fill
  BY <1>3, <1>9, FillOrder, FillCourse
<1>10. CASE Expire
  BY <1>3, <1>10, ExpireOrder, ExpireCourse
<1>11. ~LoseLoad
  BY <1>2 DEF LoseLoad, Plain
<1>12. ~Sync
  <2>1. canal = <<>> /\ taken = 0
    BY <1>3 DEF Order, RowsOK
  <2> QED
    BY <1>2, <2>1 DEF Sync, SyncStep, Vote, Consume, CommitOffset, Restart, Plain
<1>13. CASE UNCHANGED allVars
  BY <1>3, <1>13, CourseKept
<1> QED
  BY <1>4, <1>5, <1>6, <1>7, <1>8, <1>9, <1>10, <1>11, <1>12, <1>13 DEF Next

\* The state of the reader, the set, the rows and the loads that are under way is always of
\* the types declared: every page is one of members of the set or of rows that were there, so
\* the cursor and the id of a reply are a row's.
THEOREM PagesWellTyped == Spec => []TypeOK
<1>1. Init => SyncInv /\ Typed
  BY SyncInit, TypedInit
<1>2. SyncInv /\ Typed /\ [Next]_allVars => SyncInv' /\ Typed'
  <2> SUFFICES ASSUME SyncInv, Typed, [Next]_allVars PROVE SyncInv' /\ Typed'
    OBVIOUS
  <2>1. SyncInv'
    BY SyncNext
  <2>2. TypeOKSync'
    BY <2>1 DEF SyncInv
  <2> QED
    BY <2>1, <2>2, TypedNext
<1>3. SyncInv /\ Typed => TypeOK
  BY SameTypes DEF SyncInv
<1> QED
  BY <1>1, <1>2, <1>3, PTL DEF Spec

\* FollowList, FansList and Articles hide nothing from a reader who is told that this is the
\* end: it has seen all that was in the list all the time, from whichever of the set and
\* MySQL each page came, whoever joined or left meanwhile, and wherever a background load or
\* the expiry of the set fell between two pages.
THEOREM PagesMissNothing == Spec => []NothingSkipped
<1>1. Init => TypeOK /\ PageInv
  <2> SUFFICES ASSUME Init PROVE TypeOK /\ PageInv
    OBVIOUS
  <2>1. SyncInv /\ Typed
    BY SyncInit, TypedInit
  <2>2. PageInv
    BY OrderInit, CourseInit DEF PageInv
  <2> QED
    BY <2>1, <2>2, SameTypes DEF SyncInv
<1>2. TypeOK /\ PageInv /\ [Next]_allVars => PageInv'
  BY PageNext, SameTypes
<1>3. PageInv => NothingSkipped
  <2> SUFFICES ASSUME PageInv, Plain, reader.step = "done" PROVE steady \subseteq seen
    BY DEF NothingSkipped, Plain
  <2>1. Left = {}
    BY DEF PageInv, Course, SeenAll
  <2> QED
    BY <2>1 DEF Left
<1> QED
  BY <1>1, <1>2, <1>3, PagesWellTyped, PTL DEF Spec
================================================================================

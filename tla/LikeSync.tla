-------------------------------- MODULE LikeSync -------------------------------
(* How the like counts of articles get from like-mq's table like_count to the  *)
(* column like_num of the articles: canal puts each changed row into a Kafka   *)
(* topic of one partition, article-mq applies the rows in order, as absolute   *)
(* values.  Offsets are committed behind the work, so a restart goes back.     *)
(* The cached rows of article-rpc are not touched by any of this.              *)
EXTENDS Integers, Sequences

CONSTANTS
    Article,   \* articles
    MaxLikes,  \* bound: no article gets more likes
    MaxQueue,  \* bound: so many row changes are on their way
    Modes      \* likes - like_count changes, faulty - writes fail, article-mq dies

ASSUME LikeSyncAssumption ==
    /\ MaxLikes \in Nat /\ MaxQueue \in Nat
    /\ \A m \in Modes : m.likes \in BOOLEAN /\ m.faulty \in BOOLEAN

VARIABLES
    mode,      \* of the behaviour, fixed
    count,     \* like_count: the likes of each article
    canal,     \* the topic from the committed offset on
    taken,     \* how many of these article-mq has worked off
    likes,     \* like_num of each article's row
    missed     \* history: the last row change of an article could not be applied

syncVars == <<count, canal, taken, likes, missed>>

ArticleBizID == "article"

InitSync ==
    /\ count \in [Article -> 0 .. MaxLikes]
    /\ canal = <<>> /\ taken = 0
    /\ likes = count
    /\ missed = [a \in Article |-> FALSE]

\* like-mq commits a vote on an article, or on another business's object with its id.
Vote(a) ==
    /\ mode.likes /\ Len(canal) < MaxQueue
    /\ \E biz \in {ArticleBizID, "other"}, n \in {count[a] - 1, count[a] + 1} \cap 0 .. MaxLikes :
         /\ canal' = Append(canal, [biz |-> biz, obj |-> a, likeNum |-> n])
         /\ count' = IF biz = ArticleBizID THEN [count EXCEPT ![a] = n] ELSE count
    /\ UNCHANGED <<taken, likes, missed>>

\* Bug: a smaller number is taken for an older one.
UpdateLikeNum_KeepsLarger(d) == likes' = [likes EXCEPT ![d.obj] = IF d.likeNum > @ THEN d.likeNum ELSE @]

UpdateLikeNum(d) == likes' = [likes EXCEPT ![d.obj] = d.likeNum]

\* A row of another business is passed over; a failed update is logged, and the
\* message counts as worked off.
Consume ==
    /\ taken < Len(canal)
    /\ taken' = taken + 1
    /\ LET d == canal[taken + 1]
       IN  \/ d.biz # ArticleBizID /\ UNCHANGED <<likes, missed>>
           \/ d.biz = ArticleBizID /\ UpdateLikeNum(d) /\ missed' = [missed EXCEPT ![d.obj] = FALSE]
           \/ /\ d.biz = ArticleBizID /\ mode.faulty
              /\ missed' = [missed EXCEPT ![d.obj] = TRUE] /\ UNCHANGED likes
    /\ UNCHANGED <<count, canal>>

\* Bug: the place in the topic is not counted from the new offset.
CommitOffset_KeepsPlace ==
    /\ taken > 0
    /\ canal' = Tail(canal)
    /\ UNCHANGED <<count, taken, likes, missed>>

\* The committed offset moves up behind the work.
CommitOffset ==
    /\ taken > 0
    /\ canal' = Tail(canal) /\ taken' = taken - 1
    /\ UNCHANGED <<count, likes, missed>>

\* article-mq dies and starts again at the committed offset.
Restart ==
    /\ mode.faulty /\ taken > 0
    /\ taken' = 0
    /\ UNCHANGED <<count, canal, likes, missed>>

SyncStep == Consume \/ CommitOffset \/ Restart

TypeOKSync ==
    /\ count \in [Article -> 0 .. MaxLikes] /\ likes \in [Article -> 0 .. MaxLikes]
    /\ canal \in Seq([biz : {ArticleBizID, "other"}, obj : Article, likeNum : 0 .. MaxLikes])
    /\ taken \in 0 .. Len(canal)
    /\ missed \in [Article -> BOOLEAN]

\* When article-mq has worked off the topic, each article shows the likes on record, but for
\* one whose last change could not be written: whatever was lost, repeated or rolled back to
\* before, the next change makes up for.  Nobody makes up for a lost last one.
LikesAgree ==
    taken = Len(canal) => \A a \in Article : missed[a] \/ likes[a] = count[a]
================================================================================

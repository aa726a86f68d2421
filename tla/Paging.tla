--------------------------------- MODULE Paging ---------------------------------
(* One reader who reads a list page by page: FollowList, FansList, or Articles *)
(* by publish time or by likes.  Each request names the Cursor and Id of the   *)
(* reply before.  A page comes from the sorted set in Redis or, if none is     *)
(* found there, from MySQL, whose rows a background task then adds to the set. *)
(* Meanwhile members come and go and the set expires once.  How a change and   *)
(* its set get apart is FollowCache's and ArticleFeed's subject: here a change *)
(* does both at once.  So does a page, since its rows outlive their membership *)
(* and keep their times.                                                       *)
EXTENDS LikeSync, FiniteSetsExt, Functions

CONSTANTS
    End,       \* the member "-1" (score 0) that closes a complete set
    MaxTime    \* bound: the seconds in which something new happens

\* Members are the rows' ids, in the order of creation.  Modes say, too:
\* list - which, size - the page's, max - the rows a load takes at most (1000 follows or
\* fans, 200 articles), first - how many there are at first, tied - the first two rows are
\* of the same second, changes - members come and go, expiry - the set may expire.
Follows == {"follow", "fans"}
Articles == {"publish_time", "like_num"}

ASSUME PagingAssumption ==
    /\ IsFiniteSet(Article) /\ Article = 1 .. Cardinality(Article) /\ End \notin Article
    /\ MaxTime \in Nat
    /\ \A m \in Modes :
         /\ m.list \in Follows \cup Articles /\ {m.size, m.max} \subseteq Nat \ {0}
         /\ m.first \in Nat /\ {m.tied, m.changes, m.expiry} \subseteq BOOLEAN

VARIABLES
    now,       \* seconds
    status,    \* of each row: "none" yet, "in" the list, or "out"
    time,      \* create_time of each row (publish_time of an article)
    score,     \* the sorted set: the score of each member; none without a key
    cached,    \* like_num in the cached row of an article; none is NoLikes
    todo,      \* what background tasks have to add: members and their scores
    expired,   \* the set has expired
    reader,    \* step, and the request's Cursor and Id
    seen,      \* history: members the reader has seen
    steady     \* history: members in the list ever since the reader began

listVars == <<now, status, time, score>>
allVars == <<mode, syncVars, listVars, cached, todo, expired, reader, seen, steady>>

NoLikes == -1
EmptySet == [m \in {} |-> 0]
Members == {i \in Article : status[i] = "in"}
Unasked == [step |-> "new", cursor |-> 0, id |-> 0]

\* The value rows are ordered by.
Value(i) == IF mode.list = "like_num" THEN likes[i] ELSE time[i]

\* What "the first n" may be, of a set ordered by falling rank.
Firsts(set, rank(_), n) ==
    LET size == IF Cardinality(set) < n THEN Cardinality(set) ELSE n
    IN  {f \in SUBSET set : Cardinality(f) = size /\ \A i \in f, j \in set \ f : rank(i) >= rank(j)}

Init ==
    /\ mode \in Modes /\ InitSync
    /\ now = mode.first + 1
    /\ status = [i \in Article |-> IF i <= mode.first THEN "in" ELSE "none"]
    /\ time = [i \in Article |-> IF i > mode.first THEN 0 ELSE IF mode.tied /\ i = 2 THEN 1 ELSE i]
    /\ \A i \in Article : likes[i] > 0 <=> mode.list = "like_num" /\ i \in Members
    /\ mode.list = "like_num" => \A i, j \in Members : likes[i] = likes[j] => i = j
    /\ score \in {EmptySet, IF Members = {} THEN EmptySet
                          ELSE [m \in Members \cup {End} |-> IF m = End THEN 0 ELSE Value(m)]}
    /\ cached = [i \in Article |-> NoLikes]
    /\ todo = {} /\ expired = FALSE
    /\ reader = Unasked
    /\ seen = {} /\ steady = {}

--------------------------------------------------------------------------------
\* The set without a member, or with another score for one; no key without members.
Without(i) == Restrict(score, DOMAIN score \ {i})
With(i, n) == [m \in DOMAIN score \cup {i} |-> IF m = i THEN n ELSE score[m]]

Changing == mode.changes /\ UNCHANGED <<mode, syncVars, todo, expired, reader, seen>>

\* Follow again, Follow for the first time, Publish: in a new second; the set gets the
\* member if it is there.  A row that comes back keeps its create_time.
Join(i) ==
    /\ now < MaxTime /\ now' = now + 1
    /\ \/ status[i] = "out" /\ mode.list \in Follows /\ UNCHANGED time
       \/ /\ status[i] = "none" /\ \A j \in Article : status[j] = "none" => i <= j
          /\ time' = [time EXCEPT ![i] = now']
    /\ status' = [status EXCEPT ![i] = "in"]
    /\ score' = IF score = EmptySet THEN score
                ELSE With(i, IF mode.list = "like_num" THEN 0 ELSE now')
    /\ cached' = [cached EXCEPT ![i] = NoLikes]
    /\ UNCHANGED steady /\ Changing

\* UnFollow, ArticleDelete: ZREM, and the row's status.
Leave(i) ==
    /\ status[i] = "in"
    /\ status' = [status EXCEPT ![i] = "out"]
    /\ score' = Without(i)
    /\ cached' = [cached EXCEPT ![i] = NoLikes]
    /\ steady' = steady \ {i}
    /\ UNCHANGED <<now, time>> /\ Changing

--------------------------------------------------------------------------------
(* The request.                                                                *)

\* ZREVRANGEBYSCORE key cursor 0 LIMIT 0 size; members of one score go by name, here
\* against the order of their rows, the closing one last.
Place(m) == score[m] * (Cardinality(Article) + 1) + (IF m = End THEN 0 ELSE Cardinality(Article) + 1 - m)
Window(cursor) ==
    CHOOSE page \in Firsts({m \in DOMAIN score : score[m] <= cursor}, Place, mode.size) : TRUE

\* What is left of a page that has the item the request named: that item and those behind
\* it.  Where the rank leaves the order open, any of the others may be before or behind.
Kept(page, rank(_), at(_), req, last) ==
    IF req.id \in page /\ at(req.id) = req.cursor
    THEN {k \in SUBSET page :
             /\ {req.id, last} \subseteq k /\ (last = req.id => k = {last})
             /\ \A i \in page : IF i \in k THEN rank(i) <= rank(req.id) ELSE rank(i) >= rank(req.id)}
    ELSE {page}

\* The replies for a page: Cursor and Id are those of its last item.
NoReply == [items |-> {}, isEnd |-> FALSE, cursor |-> 0, id |-> 0]
Replies(page, rank(_), at(_), isEnd, req) ==
    IF page = {} THEN {[NoReply EXCEPT !.isEnd = isEnd]}
    ELSE UNION {{[items |-> k, isEnd |-> isEnd, cursor |-> at(last), id |-> last] :
                    k \in Kept(page, rank, at, req, last)} :
                last \in {i \in page : \A j \in page : rank(i) <= rank(j)}}

Unordered(i) == 0
TimeOf(i) == time[i]
ScoreOf(i) == score[i]
\* What Articles shows: publish_time, or the likes in the cached row.
ShownValue(i) == IF mode.list = "like_num" /\ cached[i] # NoLikes THEN cached[i] ELSE Value(i)

\* FollowList from the set: the rows of the page, in no order, and an empty page is the end.
CachedFollowList(req, ids, isEnd) == Replies(ids, Unordered, TimeOf, isEnd, req)

\* FansList from the set: the page itself; an empty one is answered by an empty reply.
CachedFansList(req, ids, isEnd) ==
    IF ids = {} THEN {NoReply} ELSE Replies(ids, Place, ScoreOf, isEnd, req)

\* Articles from the set: the rows come one by one from their cache, and are sorted.
CachedArticles(req, ids, isEnd) == Replies(ids, ShownValue, ShownValue, isEnd, req)

\* The closing member can only be the last of a page.
Cached(req, page) ==
    CASE mode.list = "follow" -> CachedFollowList(req, page \ {End}, End \in page)
      [] mode.list = "fans"   -> CachedFansList(req, page \ {End}, End \in page)
      [] OTHER                -> CachedArticles(req, page \ {End}, End \in page)

\* The rows MySQL gives: of follows the newest, whatever the cursor (id desc); of
\* articles those strictly below the cursor.
RowRank(i) == IF mode.list \in Follows THEN i ELSE Value(i)
Rows(req) ==
    Firsts({i \in Members : mode.list \in Follows \/ Value(i) < req.cursor}, RowRank, mode.max)

\* Bug: the comparison with the page's size is the wrong way round.
FromRows_EndSwapped(req, rows) ==
    IF rows = {} /\ mode.list \in Follows THEN {NoReply}
    ELSE UNION {Replies(page, RowRank, Value, Cardinality(rows) >= mode.size, req) :
                page \in Firsts(rows, RowRank, mode.size)}

\* The first page of the rows, and whether they are all; without rows follows get an empty reply.
FromRows(req, rows) ==
    IF rows = {} /\ mode.list \in Follows THEN {NoReply}
    ELSE UNION {Replies(page, RowRank, Value, Cardinality(rows) <= mode.size, req) :
                page \in Firsts(rows, RowRank, mode.size)}

\* Bug: the set is not closed.
Load_NotClosed(rows) ==
    {add \in {[item |-> i, at |-> Value(i)] : i \in rows} :
        add.item \in DOMAIN score => score[add.item] # add.at}

\* What a load of these rows adds: each with its value, and the closing member when there
\* are fewer than the most, and any.  (A ZADD of what is there is left out.)
Load(rows) ==
    LET adds == {[item |-> i, at |-> Value(i)] : i \in rows} \cup
                (IF rows # {} /\ Cardinality(rows) < mode.max THEN {[item |-> End, at |-> 0]} ELSE {})
    IN  {add \in adds : add.item \in DOMAIN score => score[add.item] # add.at}

\* What the reader makes of a reply: it has seen the items, and asks on if it is not the end.
Take(reply) ==
    /\ reader' = [step |-> IF reply.isEnd THEN "done" ELSE "asks", cursor |-> reply.cursor, id |-> reply.id]
    /\ seen' = seen \cup reply.items

\* A cursor of 0, the first request's, stands for now (for 2^30 by likes).
Request ==
    [reader EXCEPT !.cursor = IF @ # 0 THEN @
                              ELSE IF mode.list = "like_num" THEN MaxLikes + 1 ELSE now]

\* The reader begins, in a second of its own.
Begin ==
    /\ reader.step = "new"
    /\ now' = now + 1
    /\ reader' = [reader EXCEPT !.step = "asks"]
    /\ steady' = Members
    /\ UNCHANGED <<mode, syncVars, status, time, score, cached, todo, expired, seen>>

\* A page in the set.
HitPage ==
    LET page == Window(Request.cursor) IN
    /\ reader.step = "asks" /\ page # {}
    /\ \E reply \in Cached(Request, page) : Take(reply)
    /\ cached' = [i \in Article |-> IF mode.list = "like_num" /\ i \in page THEN ShownValue(i) ELSE cached[i]]
    /\ UNCHANGED <<mode, syncVars, listVars, todo, expired, steady>>

\* No page, or Redis fails: MySQL's rows, and a background task to add them.
MissPage ==
    /\ reader.step = "asks" /\ (mode.faulty \/ Window(Request.cursor) = {})
    /\ \E rows \in Rows(Request) :
         /\ \E reply \in FromRows(Request, rows) : Take(reply)
         /\ todo' = todo \cup Load(rows)
    /\ UNCHANGED <<mode, syncVars, listVars, cached, expired, steady>>

\* One ZADD, in the order of the rows; the closing member comes last.
Fill ==
    /\ \E add \in todo :
         /\ \A other \in todo \ {add} : other.item = End \/ (add.item # End /\ add.at >= other.at)
         /\ score' = With(add.item, add.at)
         /\ todo' = todo \ {add}
    /\ UNCHANGED <<mode, syncVars, now, status, time, cached, expired, reader, seen, steady>>

LoseLoad ==
    /\ mode.faulty /\ todo # {}
    /\ todo' = {}
    /\ UNCHANGED <<mode, syncVars, listVars, cached, expired, reader, seen, steady>>

\* Two days without a page found.
Expire ==
    /\ mode.expiry /\ ~expired /\ score # EmptySet /\ todo = {}
    /\ expired' = TRUE
    /\ score' = EmptySet
    /\ UNCHANGED <<mode, syncVars, now, status, time, cached, todo, reader, seen, steady>>

\* Only articles there are get votes.
Sync ==
    /\ (\E a \in Article : status[a] # "none" /\ Vote(a)) \/ SyncStep
    /\ UNCHANGED <<mode, listVars, cached, todo, expired, reader, seen, steady>>

Next ==
    \/ \E i \in Article : Join(i) \/ Leave(i)
    \/ Begin \/ HitPage \/ MissPage \/ Fill \/ LoseLoad \/ Expire \/ Sync

Spec == Init /\ [][Next]_allVars

\* The reader asks on, background tasks run.
FairSpec ==
    /\ Spec
    /\ WF_allVars(Begin) /\ WF_allVars(HitPage \/ MissPage) /\ WF_allVars(Fill)

--------------------------------------------------------------------------------
TypeOK ==
    /\ TypeOKSync
    /\ mode \in Modes /\ now \in Nat
    /\ status \in [Article -> {"none", "in", "out"}] /\ time \in [Article -> 0 .. now]
    /\ DOMAIN score \subseteq Article \cup {End} /\ score \in [DOMAIN score -> Nat]
    /\ cached \in [Article -> {NoLikes} \cup 0 .. MaxLikes]
    /\ todo \subseteq [item : Article \cup {End}, at : Nat]
    /\ expired \in BOOLEAN
    /\ reader \in [step : {"new", "asks", "done"}, cursor : Nat, id : Nat]
    /\ seen \subseteq Article /\ steady \subseteq Article

\* A reader who is told that this is the end has seen everything that was in the list all
\* the time, wherever the pages came from, whoever joined or left, and though the set
\* expired between two pages.  This takes members of different seconds and, by likes, likes
\* that do not change.  A page as long as a load (no handler bounds PageSize) is told to be
\* the end although the load was cut.  And of follows only a list of less than a page is
\* safe, since the rows of a page come in no order and the cut drops those before the cursor's.
NothingSkipped ==
    /\ reader.step = "done" /\ ~mode.faulty /\ ~mode.tied /\ ~mode.likes
    /\ mode.size < mode.max \/ Cardinality(Article) < mode.max
    /\ mode.list = "follow" => Cardinality(Article) < mode.size
    => steady \subseteq seen

\* A reader comes to the end, though each page begins with the last item of the page
\* before: where pages are longer than the members of one second, there are fewer members
\* than a load takes (else it never gets beyond the load), nothing fails, and the list of
\* fans has some and keeps them (for an empty page of fans does not say that it is the
\* end); by likes, if none changes and none is 0; of follows only a list of less than a page.
Favourable ==
    /\ ~mode.faulty /\ ~mode.likes /\ (mode.tied => mode.size > 2) /\ mode.size > 1
    /\ Cardinality(Article) < mode.max
    /\ mode.list = "publish_time" \/ (~mode.changes /\ (mode.list \in Articles \/ mode.first > 0))
    /\ mode.list = "follow" => mode.first < mode.size
PagingEnds == Favourable /\ reader.step = "asks" ~> reader.step = "done"
================================================================================

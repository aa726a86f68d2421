------------------------------ MODULE ArticleFeed ------------------------------
(* The feed of one author, kept by two services.  article-rpc's Publish and    *)
(* ArticleDelete change the article's row and then the author's two sorted     *)
(* sets in Redis (by publish time, by likes); Articles fills a set from MySQL  *)
(* in the background when a page is not found in it.  article-mq reads the     *)
(* row changes from the binlog, in order and one at a time, corrects the sets  *)
(* and writes the search index; it commits its place in the topic once a       *)
(* second.  Sets expire, Redis calls fail, processes die.                      *)
EXTENDS Naturals, Sequences, FiniteSetsExt

CONSTANTS
    Article,       \* article ids, in the order of publication
    Writer,        \* goroutines that serve Publish and ArticleDelete
    MQ,            \* the one processor of article-mq
    Loader,        \* the Articles calls that find no page
    End,           \* the member "-1" (score 0) that closes a complete set
    DefaultLimit,  \* rows a load reads, 200 in the code
    Modes          \* what the surroundings of a behaviour may be like:
                   \* sequential - the author waits for an answer before calling again,
                   \* rpcFails - article-rpc's external calls fail, it dies,
                   \* mqFails - article-mq's external calls fail,
                   \* mqDies - article-mq dies and is started again,
                   \* overlap - lists are loaded within a second of a row change,
                   \* deep - a reader asks for a later page of a set that has expired

ASSUME ArticleAssumption == Article \subseteq Nat /\ End \notin Article
ASSUME WorkerAssumption == MQ \notin Writer
ASSUME LimitAssumption == DefaultLimit \in Nat \ {0}
ASSUME ModeAssumption ==
    Modes \subseteq [sequential : BOOLEAN, rpcFails : BOOLEAN, mqFails : BOOLEAN,
                     mqDies : BOOLEAN, overlap : BOOLEAN, deep : BOOLEAN]

VARIABLES
    mode,     \* of the behaviour, fixed
    status,   \* of each article's row
    binlog,   \* row changes article-mq has not finished with
    handled,  \* those it has, up to which it has not committed its offset
    feed,     \* the members of each set; a set without members has no key
    index,    \* the status in each article's search document
    job,      \* what each worker is at
    load      \* the state of each loader

topic == <<binlog, handled>>
vars == <<mode, status, topic, feed, index, job, load>>

Worker == Writer \cup {MQ}
SortKey == {"publish_time", "like_num"}
RowStatus == {"visible", "deleted"}
Status == {"absent"} \cup RowStatus
Visible == {a \in Article : status[a] = "visible"}

Free == [op |-> "none", article |-> End, key |-> "publish_time", step |-> "idle"]
Job == [op : {"visible", "deleted"}, article : Article, key : SortKey,
        step : {"exists", "zadd", "zrem", "index"}]

Unused == [key |-> "publish_time", step |-> "idle", deep |-> FALSE, todo |-> {}]
Loading(l) == load[l].step \in {"query", "fill"}

Failing(p) == IF p = MQ THEN mode.mqFails ELSE mode.rpcFails

Init ==
    /\ mode \in Modes
    /\ status = [a \in Article |-> "absent"]
    /\ binlog = <<>> /\ handled = <<>>
    /\ feed = [k \in SortKey |-> {}]
    /\ index = [a \in Article |-> "absent"]
    /\ job = [p \in Worker |-> Free]
    /\ load = [l \in Loader |-> Unused]

Put(k, members) == feed' = [feed EXCEPT ![k] = members]

FirstStep(op) == IF op = "visible" THEN "exists" ELSE "zrem"
Start(p, op, a) ==
    job' = [job EXCEPT ![p] = [op |-> op, article |-> a, key |-> "publish_time",
                               step |-> FirstStep(op)]]
Finish(p) == job' = [job EXCEPT ![p] = Free]

\* article-mq is done with the first message.  (Without deaths it does not matter when
\* the offset is committed.)
Leave ==
    /\ binlog' = Tail(binlog)
    /\ handled' = IF mode.mqDies THEN Append(handled, Head(binlog)) ELSE <<>>

--------------------------------------------------------------------------------
\* Bugs this code could have; each breaks one property below.

\* A new article waits for approval in a status the readers do not know.
Publish_Pending(w, a) ==
    /\ job[w] = Free /\ status[a] = "absent"
    /\ status' = [status EXCEPT ![a] = "pending"]
    /\ Start(w, "visible", a)
    /\ UNCHANGED <<mode, topic, feed, index, load>>

\* article-mq stops after the first set.
Advance_OneSet(p) ==
    IF job[p].key = "publish_time" /\ p # MQ
    THEN job' = [job EXCEPT ![p].key = "like_num", ![p].step = FirstStep(job[p].op)]
    ELSE IF p = MQ THEN job' = [job EXCEPT ![p].step = "index"]
    ELSE Finish(p)

\* article-mq has no case for deleted articles.
Take_NoDelete ==
    /\ job[MQ] = Free /\ binlog # <<>>
    /\ Start(MQ, "visible", Head(binlog).article)
    /\ UNCHANGED <<mode, status, topic, feed, index, load>>

\* Documents are created and never updated.
Index_CreateOnly ==
    /\ job[MQ].step = "index"
    /\ index' = [index EXCEPT ![job[MQ].article] = IF @ = "absent" THEN job[MQ].op ELSE @]
    /\ Leave
    /\ Finish(MQ)
    /\ UNCHANGED <<mode, status, feed, load>>

--------------------------------------------------------------------------------
(* article-rpc: the rows.                                                      *)

\* The author calls; row changes and loads are a second apart unless they overlap.
MayWrite(w) ==
    /\ job[w] = Free
    /\ mode.sequential => \A v \in Writer : job[v] = Free
    /\ mode.overlap \/ ~\E l \in Loader : Loading(l)

Commit(a, new) ==
    /\ status' = [status EXCEPT ![a] = new]
    /\ binlog' = IF status[a] = new THEN binlog
                 ELSE Append(binlog, [article |-> a, status |-> new])
    /\ UNCHANGED handled

\* Publish inserts a row under the next id.
Publish(w, a) ==
    /\ MayWrite(w)
    /\ status[a] = "absent" /\ \A b \in Article : status[b] = "absent" => a <= b
    /\ Commit(a, "visible")
    /\ Start(w, "visible", a)
    /\ UNCHANGED <<mode, feed, index, load>>

\* ArticleDelete finds the row, whatever its status, and sets it to deleted; an
\* update that changes nothing leaves no trace in the binlog.
ArticleDelete(w, a) ==
    /\ MayWrite(w)
    /\ status[a] # "absent"
    /\ Commit(a, "deleted")
    /\ Start(w, "deleted", a)
    /\ UNCHANGED <<mode, feed, index, load>>

--------------------------------------------------------------------------------
(* The sets, first by time and then by likes: the steps Publish and            *)
(* ArticleDelete share with article-mq's articleOperate.                       *)
Advance(p) ==
    IF job[p].key = "publish_time"
    THEN job' = [job EXCEPT ![p].key = "like_num", ![p].step = FirstStep(job[p].op)]
    ELSE IF p = MQ THEN job' = [job EXCEPT ![p].step = "index"]
    ELSE Finish(p)

\* EXISTS: a set that is not cached, or an error, and the set is left alone.
Exists(p) ==
    /\ job[p].step = "exists"
    /\ \/ feed[job[p].key] # {} /\ job' = [job EXCEPT ![p].step = "zadd"]
       \/ (feed[job[p].key] = {} \/ Failing(p)) /\ Advance(p)
    /\ UNCHANGED <<mode, status, topic, feed, index, load>>

\* ZADD, which makes a new set of one that has just expired.  Its error is
\* logged, but for article-mq's first set, where it ends the message.
Zadd(p) ==
    LET k == job[p].key IN
    /\ job[p].step = "zadd"
    /\ \/ Put(k, feed[k] \cup {job[p].article}) /\ Advance(p) /\ UNCHANGED topic
       \/ /\ Failing(p) /\ ~(p = MQ /\ k = "publish_time")
          /\ Advance(p)
          /\ UNCHANGED <<feed, topic>>
       \/ /\ Failing(p) /\ p = MQ /\ k = "publish_time"
          /\ Finish(p)
          /\ Leave \/ UNCHANGED topic
          /\ UNCHANGED feed
    /\ UNCHANGED <<mode, status, index, load>>

\* ZREM; its error is logged.
Zrem(p) ==
    LET k == job[p].key IN
    /\ job[p].step = "zrem"
    /\ Put(k, feed[k] \ {job[p].article}) \/ (Failing(p) /\ UNCHANGED feed)
    /\ Advance(p)
    /\ UNCHANGED <<mode, status, topic, index, load>>

\* The process dies.
Crash(w) ==
    /\ job[w] # Free /\ Failing(w)
    /\ Finish(w)
    /\ UNCHANGED <<mode, status, topic, feed, index, load>>

--------------------------------------------------------------------------------
(* article-mq: Consume and articleOperate.                                     *)
Take ==
    /\ job[MQ] = Free /\ binlog # <<>>
    /\ Start(MQ, Head(binlog).status, Head(binlog).article)
    /\ UNCHANGED <<mode, status, topic, feed, index, load>>

\* FindById and BatchUpSertToEs.  After an error, which may hide a document that was
\* written, the queue goes on or delivers again; a document that fails inside the batch
\* is not reported.
Index ==
    LET Written == [index EXCEPT ![job[MQ].article] = job[MQ].op] IN
    /\ job[MQ].step = "index"
    /\ \/ index' = Written /\ Leave
       \/ /\ mode.mqFails
          /\ index' \in {index, Written}
          /\ Leave \/ UNCHANGED topic
    /\ Finish(MQ)
    /\ UNCHANGED <<mode, status, feed, load>>

\* The offset behind what has been handled is committed.
CommitOffset ==
    /\ handled # <<>>
    /\ handled' = <<>>
    /\ UNCHANGED <<mode, status, binlog, feed, index, job, load>>

\* article-mq dies, and begins again behind the last offset it committed.
Restart ==
    /\ mode.mqDies
    /\ job[MQ] # Free \/ handled # <<>>
    /\ binlog' = handled \o binlog /\ handled' = <<>>
    /\ Finish(MQ)
    /\ UNCHANGED <<mode, status, feed, index, load>>

--------------------------------------------------------------------------------
(* article-rpc: Articles.                                                      *)

\* The calls that share one query: SingleFlight goes by author and order only.
Flight(k) == {l \in Loader : load[l].key = k /\ load[l].step = "query"}

\* No page is found: no set for the first page, nothing below the cursor for a
\* later one.  A call that joins a flight takes the rows below the other's cursor.
Miss(l, k, deep) ==
    /\ load[l] = Unused
    /\ deep => mode.deep /\ End \notin feed[k]
    /\ ~deep => feed[k] = {} \/ mode.rpcFails
    /\ load' = [load EXCEPT ![l] =
                  [key |-> k, step |-> "query", todo |-> {},
                   deep |-> IF Flight(k) = {} THEN deep
                            ELSE \E m \in Flight(k) : load[m].deep]]
    /\ UNCHANGED <<mode, status, topic, feed, index, job>>

\* Rows with publish_time or like_num strictly below the cursor: of a first page
\* all but one published in the same second, of a later page any.
RowsBelow(deep) ==
    IF deep THEN SUBSET Visible
    ELSE {Visible} \cup {Visible \ {a} : a \in IF mode.overlap THEN Visible ELSE {}}

\* DefaultLimit rows at most, closed when there are fewer; nothing when none.
Page(rows) ==
    IF rows = {} THEN {{}}
    ELSE IF Cardinality(rows) < DefaultLimit THEN {rows \cup {End}}
    ELSE kSubset(DefaultLimit, rows)

Share(k, step, todo) ==
    load' = [l \in Loader |-> IF l \in Flight(k)
                              THEN [load[l] EXCEPT !.step = step, !.todo = todo]
                              ELSE load[l]]

\* ArticlesByUserId, for all that wait for it.
ArticlesByUserId(k) ==
    /\ \E l \in Flight(k) :
         \E rows \in RowsBelow(load[l].deep) : \E page \in Page(rows) :
            Share(k, IF page = {} THEN "done" ELSE "fill", page)
    /\ UNCHANGED <<mode, status, topic, feed, index, job>>

\* addCacheArticles, in the background: one ZADD per article, the closing member
\* last.  An error or a crash leaves what was added so far.
Fill(l) ==
    LET k == load[l].key IN
    /\ load[l].step = "fill"
    /\ \E m \in load[l].todo :
         /\ m = End => load[l].todo = {End}
         /\ Put(k, feed[k] \cup {m})
         /\ load' = [load EXCEPT ![l].todo = @ \ {m},
                                 ![l].step = IF load[l].todo = {m} THEN "done" ELSE "fill"]
    /\ UNCHANGED <<mode, status, topic, index, job>>

LoseLoad(l) ==
    /\ mode.rpcFails /\ Loading(l)
    /\ load' = [load EXCEPT ![l].step = "done", ![l].todo = {}]
    /\ UNCHANGED <<mode, status, topic, feed, index, job>>

\* A set reaches its TTL (two days), long after the load that renewed it is over.
\* Any set may: each page found gives the key a TTL, also one that had none.
ExpireSet(k) ==
    /\ feed[k] # {}
    /\ mode.overlap \/ \A l \in Loader : load[l].key = k => ~Loading(l)
    /\ Put(k, {})
    /\ UNCHANGED <<mode, status, topic, index, job, load>>

--------------------------------------------------------------------------------
Work(p) == Exists(p) \/ Zadd(p) \/ Zrem(p)
Consume == Take \/ Work(MQ) \/ Index \/ CommitOffset \/ Restart

Next ==
    \/ \E w \in Writer, a \in Article : Publish(w, a) \/ ArticleDelete(w, a)
    \/ \E w \in Writer : Work(w) \/ Crash(w)
    \/ Consume
    \/ \E k \in SortKey : ArticlesByUserId(k) \/ ExpireSet(k)
    \/ \E l \in Loader, k \in SortKey, deep \in BOOLEAN : Miss(l, k, deep)
    \/ \E l \in Loader : Fill(l) \/ LoseLoad(l)

Spec == Init /\ [][Next]_vars

--------------------------------------------------------------------------------
TypeOK ==
    /\ mode \in Modes
    /\ status \in [Article -> Status]
    /\ binlog \in Seq([article : Article, status : RowStatus])
    /\ handled \in Seq([article : Article, status : RowStatus])
    /\ feed \in [SortKey -> SUBSET (Article \cup {End})]
    /\ index \in [Article -> Status]
    /\ job \in [Worker -> {Free} \cup Job]
    /\ load \in [Loader -> [key : SortKey, deep : BOOLEAN,
                            step : {"idle", "query", "fill", "done"},
                            todo : SUBSET (Article \cup {End})]]

\* Every listed article has a row.
ListedHasRow == \A k \in SortKey : \A a \in feed[k] \ {End} : status[a] # "absent"

\* Nobody is at work: no call, no message, no load.
Settled ==
    /\ \A p \in Worker : job[p] = Free
    /\ binlog = <<>>
    /\ \A l \in Loader : ~Loading(l)

\* Surroundings in which article-mq can make up for what article-rpc lost.
Ordered == mode.sequential /\ ~mode.mqFails /\ ~mode.overlap

\* No deleted article is listed when all is quiet.
DeletedLeaves ==
    Ordered /\ Settled => \A k \in SortKey : feed[k] \subseteq Visible \cup {End}

\* What the feeds promise their readers.  Whatever fails, every listed article has a row:
\* one without fails the whole page, because articleByIds cancels the others when FindOne
\* finds nothing.  And articleOperate compensates: article-rpc may fail or die between the
\* row and the sets, article-mq may die and repeat what it had done, and yet no deleted
\* article stays listed.
FeedTruthful == ListedHasRow /\ DeletedLeaves

\* A set that says it is complete is, when all is quiet: a reader who reaches the
\* closing member has seen every visible article.  Not so for readers who go on
\* with a later page after the set expired: they fill it from there and close it.
ClosedIsComplete ==
    Ordered /\ Settled /\ ~mode.deep =>
        \A k \in SortKey : End \in feed[k] => Visible \subseteq feed[k]

\* The search index has the status of every row when all is quiet, however often
\* article-mq died: what it repeats it repeats in order, and to the end.
SearchAgrees == Settled /\ ~mode.mqFails => index = status
================================================================================

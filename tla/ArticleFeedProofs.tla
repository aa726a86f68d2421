---------------------------- MODULE ArticleFeedProofs ----------------------------
(* Proofs about the feed of an author, for any articles, goroutines and loads: *)
(* types, what the two sets and the search index promise whatever fails, and   *)
(* why article-mq makes up for what article-rpc lost.                          *)
EXTENDS ArticleFeed, TLAPS

Change == [article : Article, status : RowStatus]

\* Jobs follow the kind of the row change; only article-mq has an index to write.
JobShaped ==
    \A p \in Worker : job[p] # Free =>
        /\ job[p].op = "visible" => job[p].step \in {"exists", "zadd", "index"}
        /\ job[p].op = "deleted" => job[p].step \in {"zrem", "index"}
        /\ job[p].step = "index" => p = MQ /\ job[p].key = "like_num"

\* The row has been given the status and, if that is not "deleted", may have been
\* deleted since; a row is never published twice.
Past(a, st) == status[a] = st \/ status[a] = "deleted"

\* All the messages article-mq may still get, those it may get again among them.
Log == handled \o binlog

\* Messages and jobs are about rows; loads have read rows.
RowsBehind ==
    /\ \A n \in 1 .. Len(Log) : Past(Log[n].article, Log[n].status)
    /\ \A p \in Worker : job[p] # Free => Past(job[p].article, job[p].op)
    /\ \A l \in Loader : \A a \in load[l].todo \ {End} : status[a] # "absent"

\* A message that is out of date is followed by one that is not.
Superseded ==
    \A n \in 1 .. Len(Log) :
        Log[n].status # status[Log[n].article] =>
            \E m \in n + 1 .. Len(Log) :
                Log[m] = [article |-> Log[n].article, status |-> status[Log[n].article]]

\* article-mq is at work on the first message.
AtHead ==
    job[MQ] # Free =>
        binlog # <<>> /\ binlog[1] = [article |-> job[MQ].article, status |-> job[MQ].op]

\* Without a message about it, an article's document has its row's status.
IndexAgrees ==
    ~mode.mqFails =>
        \A a \in Article :
            (\A n \in 1 .. Len(binlog) : binlog[n].article # a) => index[a] = status[a]

\* An author who calls one at a time has no publication under way of an article
\* that was deleted.
WritersAgree ==
    mode.sequential =>
        \A w \in Writer : job[w].op = "visible" => status[job[w].article] = "visible"

\* Rows do not change under a load, which adds the closing member after all others.
LoadsAgree ==
    /\ \A l \in Loader : load[l].deep => mode.deep
    /\ ~mode.overlap =>
         \A l \in Loader : Loading(l) =>
            /\ load[l].todo \ {End} \subseteq Visible
            /\ ~mode.deep /\ End \in load[l].todo =>
                 Visible \subseteq feed[load[l].key] \cup load[l].todo

\* article-mq has yet to bring set k up to date with the message it is at work on.
Ahead(k) == job[MQ].step # "index" /\ job[MQ].key \in {"publish_time", k}

\* It has yet to do so with a message that gives the article this status.
Due(k, a, st) ==
    \E n \in 1 .. Len(binlog) :
        /\ binlog[n] = [article |-> a, status |-> st]
        /\ n = 1 /\ job[MQ] # Free => Ahead(k)

\* What is listed and deleted is going to be removed; what a closed set lacks is
\* going to be added.
Compensated ==
    Ordered =>
        /\ \A k \in SortKey, a \in Article :
             a \in feed[k] /\ status[a] = "deleted" => Due(k, a, "deleted")
        /\ ~mode.deep =>
             \A k \in SortKey, a \in Article :
                 End \in feed[k] /\ status[a] = "visible" /\ a \notin feed[k] =>
                     Due(k, a, "visible")

--------------------------------------------------------------------------------
(* Types and the shape of jobs.                                                *)

USE ArticleAssumption, WorkerAssumption, LimitAssumption, ModeAssumption

LoadState == [key : SortKey, deep : BOOLEAN, step : {"idle", "query", "fill", "done"},
              todo : SUBSET (Article \cup {End})]

Shaped == TypeOK /\ JobShaped /\ AtHead

LEMMA JobTyped ==
    ASSUME TypeOK, NEW p \in Worker, job[p] # Free
    PROVE  job[p] \in Job /\ job[p].article \in Article /\ job[p].key \in SortKey
           /\ job[p].op \in RowStatus
BY DEF TypeOK, Job, RowStatus

LEMMA StepTyped ==
    ASSUME TypeOK, NEW p \in Worker, job[p].step # "idle"
    PROVE  job[p] # Free
BY DEF Free

\* A worker's job becomes t.
Becomes(p, t) == job' = [job EXCEPT ![p] = t]

LEMMA BecomesTyped ==
    ASSUME TypeOK, NEW p \in Worker, NEW t \in {Free} \cup Job, Becomes(p, t)
    PROVE  /\ job' \in [Worker -> {Free} \cup Job]
           /\ job'[p] = t /\ \A q \in Worker : q # p => job'[q] = job[q]
BY DEF TypeOK, Becomes

\* What is left of a job after one of its sets.
Onward(p, t) ==
    \/ /\ job[p].key = "publish_time"
       /\ t = [op |-> job[p].op, article |-> job[p].article, key |-> "like_num",
               step |-> FirstStep(job[p].op)]
    \/ /\ job[p].key = "like_num" /\ p = MQ
       /\ t = [op |-> job[p].op, article |-> job[p].article, key |-> "like_num",
               step |-> "index"]
    \/ job[p].key = "like_num" /\ p # MQ /\ t = Free

LEMMA OnwardTyped ==
    ASSUME TypeOK, NEW p \in Worker, job[p] # Free, NEW t, Onward(p, t)
    PROVE  t \in {Free} \cup Job
<1>1. job[p] \in Job
  BY JobTyped
<1>2. FirstStep(job[p].op) \in {"exists", "zrem"}
  BY DEF FirstStep
<1> QED
  BY <1>1, <1>2 DEF Onward, Job, SortKey

LEMMA AdvanceMoves ==
    ASSUME TypeOK, NEW p \in Worker, job[p] # Free, Advance(p)
    PROVE  \E t : Onward(p, t) /\ Becomes(p, t)
<1>1. job[p] \in Job /\ job \in [Worker -> {Free} \cup Job]
  BY JobTyped DEF TypeOK
<1>2. CASE job[p].key = "publish_time"
  <2> DEFINE t == [op |-> job[p].op, article |-> job[p].article, key |-> "like_num",
                   step |-> FirstStep(job[p].op)]
  <2>1. job' = [job EXCEPT ![p] = t]
    BY <1>1, <1>2 DEF Advance, Job
  <2> QED
    BY <1>2, <2>1 DEF Onward, Becomes
<1>3. CASE job[p].key # "publish_time"
  <2>1. job[p].key = "like_num"
    BY <1>1, <1>3 DEF Job, SortKey
  <2>2. CASE p = MQ
    <3> DEFINE t == [op |-> job[p].op, article |-> job[p].article, key |-> "like_num",
                     step |-> "index"]
    <3>1. job' = [job EXCEPT ![p] = t]
      BY <1>1, <2>1, <2>2 DEF Advance, Job
    <3> QED
      BY <2>1, <2>2, <3>1 DEF Onward, Becomes
  <2>3. CASE p # MQ
    BY <2>1, <2>3 DEF Advance, Finish, Onward, Becomes
  <2> QED
    BY <2>2, <2>3
<1> QED
  BY <1>2, <1>3

\* A step on a set: the worker looks whether the set is there, it puts in its article
\* or takes it out, or the call fails.
Looks(p) ==
    /\ job[p].step = "exists" /\ UNCHANGED <<feed, topic>>
    /\ \/ feed[job[p].key] # {}
          /\ Becomes(p, [op |-> job[p].op, article |-> job[p].article, key |-> job[p].key,
                         step |-> "zadd"])
       \/ (feed[job[p].key] = {} \/ Failing(p)) /\ \E t : Onward(p, t) /\ Becomes(p, t)

PutsIn(p) ==
    /\ job[p].step = "zadd" /\ UNCHANGED topic
    /\ Put(job[p].key, feed[job[p].key] \cup {job[p].article})
    /\ \E t : Onward(p, t) /\ Becomes(p, t)

TakesOut(p) ==
    /\ job[p].step = "zrem" /\ UNCHANGED topic
    /\ Put(job[p].key, feed[job[p].key] \ {job[p].article})
    /\ \E t : Onward(p, t) /\ Becomes(p, t)

Fails(p) ==
    /\ Failing(p) /\ UNCHANGED feed
    /\ \/ job[p].step # "index" /\ UNCHANGED topic /\ \E t : Onward(p, t) /\ Becomes(p, t)
       \/ p = MQ /\ Leave /\ Becomes(p, Free)
       \/ UNCHANGED topic /\ Becomes(p, Free)

LEMMA WorkMoves ==
    ASSUME TypeOK, NEW p \in Worker, Work(p) \/ Crash(p)
    PROVE  /\ job[p] # Free /\ UNCHANGED <<mode, status, index, load>>
           /\ Looks(p) \/ PutsIn(p) \/ TakesOut(p) \/ Fails(p)
<1>1. job[p] # Free
  BY DEF Work, Exists, Zadd, Zrem, Crash, Free
<1>2. UNCHANGED <<mode, status, index, load>>
  BY DEF Work, Exists, Zadd, Zrem, Crash
<1>3. Advance(p) => \E t : Onward(p, t) /\ Becomes(p, t)
  BY <1>1, AdvanceMoves
<1>4. Finish(p) => Becomes(p, Free)
  BY DEF Finish, Becomes
<1>5. CASE Exists(p)
  <2>1. job' = [job EXCEPT ![p].step = "zadd"] =>
          Becomes(p, [op |-> job[p].op, article |-> job[p].article, key |-> job[p].key,
                      step |-> "zadd"])
    <3>1. job[p] \in Job /\ job \in [Worker -> {Free} \cup Job]
      BY <1>1, JobTyped DEF TypeOK
    <3> QED
      BY <3>1 DEF Becomes, Job
  <2> QED
    BY <1>1, <1>2, <1>3, <1>5, <2>1 DEF Exists, Looks
<1>6. CASE Zadd(p)
  BY <1>1, <1>2, <1>3, <1>4, <1>6 DEF Zadd, PutsIn, Fails
<1>7. CASE Zrem(p)
  BY <1>1, <1>2, <1>3, <1>7 DEF Zrem, TakesOut, Fails
<1>8. CASE Crash(p)
  BY <1>1, <1>2, <1>4, <1>8 DEF Crash, Fails
<1> QED
  BY <1>5, <1>6, <1>7, <1>8 DEF Work

\* A row changes: its status, and a message about it unless the status is the same.
RowChanges(w, a, new) ==
    /\ MayWrite(w)
    /\ IF new = "visible" THEN status[a] = "absent" ELSE status[a] # "absent"
    /\ status' = [status EXCEPT ![a] = new]
    /\ binlog' = IF status[a] = new THEN binlog
                 ELSE Append(binlog, [article |-> a, status |-> new])
    /\ Becomes(w, [op |-> new, article |-> a, key |-> "publish_time", step |-> FirstStep(new)])
    /\ UNCHANGED <<mode, handled, feed, index, load>>

LEMMA RowMoves ==
    ASSUME TypeOK, NEW w \in Writer, NEW a \in Article, Publish(w, a) \/ ArticleDelete(w, a)
    PROVE  \E new \in RowStatus : RowChanges(w, a, new)
<1>1. CASE Publish(w, a)
  <2>1. RowChanges(w, a, "visible")
    BY <1>1 DEF Publish, Commit, Start, RowChanges, Becomes
  <2> QED
    BY <2>1 DEF RowStatus
<1>2. CASE ArticleDelete(w, a)
  <2>1. RowChanges(w, a, "deleted")
    BY <1>2 DEF ArticleDelete, Commit, Start, RowChanges, Becomes
  <2> QED
    BY <2>1 DEF RowStatus
<1> QED
  BY <1>1, <1>2

LEMMA TakeMoves ==
    ASSUME TypeOK, Take
    PROVE  /\ job[MQ] = Free /\ binlog # <<>> /\ binlog[1] \in Change
           /\ Becomes(MQ, [op |-> binlog[1].status, article |-> binlog[1].article,
                           key |-> "publish_time", step |-> FirstStep(binlog[1].status)])
           /\ UNCHANGED <<mode, status, topic, feed, index, load>>
<1>1. binlog \in Seq(Change) /\ binlog # <<>>
  BY DEF TypeOK, Change, Take
<1>2. Head(binlog) = binlog[1] /\ binlog[1] \in Change
  BY <1>1
<1> QED
  BY <1>1, <1>2 DEF Take, Start, Becomes

LEMMA IndexMoves ==
    ASSUME TypeOK, Index
    PROVE  /\ job[MQ].step = "index" /\ job[MQ] # Free /\ Becomes(MQ, Free)
           /\ \/ /\ index' = [index EXCEPT ![job[MQ].article] = job[MQ].op]
                 /\ Leave
              \/ /\ mode.mqFails /\ (Leave \/ UNCHANGED topic)
                 /\ index' \in {index, [index EXCEPT ![job[MQ].article] = job[MQ].op]}
           /\ UNCHANGED <<mode, status, feed, load>>
BY DEF Index, Finish, Becomes, Free

\* What messages are left, and what the new one is.
LEMMA TailMoves ==
    ASSUME binlog \in Seq(Change), binlog # <<>>, binlog' = Tail(binlog)
    PROVE  /\ Len(binlog) \in Nat /\ Len(binlog) >= 1 /\ Len(binlog') = Len(binlog) - 1
           /\ binlog' \in Seq(Change)
           /\ \A n \in 1 .. Len(binlog') : binlog'[n] = binlog[n + 1]
OBVIOUS

\* Two sequences of messages put together.
LEMMA Concatenation ==
    ASSUME NEW s \in Seq(Change), NEW t \in Seq(Change)
    PROVE  /\ s \o t \in Seq(Change)
           /\ Len(s) \in Nat /\ Len(t) \in Nat /\ Len(s \o t) = Len(s) + Len(t)
           /\ \A n \in 1 .. Len(s) : (s \o t)[n] = s[n]
           /\ \A n \in 1 .. Len(t) : (s \o t)[Len(s) + n] = t[n]
OBVIOUS

\* The log, message by message.
LEMMA LogMoves ==
    ASSUME handled \in Seq(Change), binlog \in Seq(Change)
    PROVE  /\ Len(handled) \in Nat /\ Len(binlog) \in Nat /\ Len(Log) = Len(handled) + Len(binlog)
           /\ Log \in Seq(Change)
           /\ \A n \in 1 .. Len(handled) : Log[n] = handled[n]
           /\ \A n \in 1 .. Len(binlog) : Log[Len(handled) + n] = binlog[n]
BY Concatenation DEF Log

\* What article-mq may do to the topic.
TopicMoves ==
    \/ UNCHANGED topic
    \/ Leave /\ binlog # <<>>
    \/ handled' = <<>> /\ binlog' = handled \o binlog
    \/ handled' = <<>> /\ binlog' = binlog

\* The log without its first d messages.
ShiftedBy(d) ==
    /\ Len(Log') = Len(Log) - d
    /\ \A n \in 1 .. Len(Log') : Log'[n] = Log[n + d]

\* It keeps its messages, but for some at the beginning.
LEMMA LogShifts ==
    ASSUME handled \in Seq(Change), binlog \in Seq(Change), TopicMoves
    PROVE  /\ handled' \in Seq(Change) /\ binlog' \in Seq(Change)
           /\ \E d \in Nat : ShiftedBy(d)
<1>1. /\ Len(handled) \in Nat /\ Len(binlog) \in Nat /\ Len(Log) = Len(handled) + Len(binlog)
      /\ Log \in Seq(Change)
      /\ \A n \in 1 .. Len(handled) : Log[n] = handled[n]
      /\ \A n \in 1 .. Len(binlog) : Log[Len(handled) + n] = binlog[n]
  BY LogMoves
<1>2. ASSUME Log' = Log PROVE ShiftedBy(0)
  <2>1. Len(Log) - 0 = Len(Log) /\ \A n \in 1 .. Len(Log) : n + 0 = n
    BY <1>1
  <2> QED
    BY <1>2, <2>1 DEF ShiftedBy
<1>3. CASE UNCHANGED topic
  <2>1. handled' = handled /\ binlog' = binlog
    BY <1>3 DEF topic
  <2>2. Log' = Log
    BY <2>1 DEF Log
  <2> QED
    BY <1>2, <2>1, <2>2
<1>4. CASE handled' = <<>> /\ binlog' = handled \o binlog
  <2>1. binlog' = Log /\ Log' = handled' \o binlog'
    BY <1>4 DEF Log
  <2>2. Log' = Log
    BY <1>1, <1>4, <2>1
  <2>3. handled' \in Seq(Change)
    BY <1>4
  <2> QED
    BY <1>1, <1>2, <2>1, <2>2, <2>3
<1>5. CASE handled' = <<>> /\ binlog' = binlog
  <2>1. Log' = handled' \o binlog'
    BY DEF Log
  <2>2. Log' = binlog /\ handled' \in Seq(Change)
    BY <1>5, <2>1
  <2>3. Len(Log) - Len(handled) = Len(binlog)
        /\ \A n \in 1 .. Len(binlog) : Len(handled) + n = n + Len(handled)
    BY <1>1
  <2>4. ShiftedBy(Len(handled))
    BY <1>1, <2>2, <2>3 DEF ShiftedBy
  <2> QED
    BY <1>1, <1>5, <2>2, <2>4
<1>6. CASE Leave /\ binlog # <<>>
  <2>1. /\ Len(binlog) >= 1 /\ Len(binlog') = Len(binlog) - 1 /\ binlog' \in Seq(Change)
        /\ \A n \in 1 .. Len(binlog') : binlog'[n] = binlog[n + 1]
    BY <1>6, TailMoves DEF Leave
  <2>2. Log' = handled' \o binlog'
    BY DEF Log
  <2>3. CASE ~mode.mqDies
    <3>1. handled' = <<>> /\ handled' \in Seq(Change)
      BY <1>6, <2>3 DEF Leave
    <3>2. Log' = binlog'
      BY <2>1, <2>2, <3>1
    <3> DEFINE d == Len(handled) + 1
    <3>3. d \in Nat /\ Len(Log') = Len(Log) - d
      BY <1>1, <2>1, <3>2
    <3>4. ASSUME NEW n \in 1 .. Len(Log') PROVE Log'[n] = Log[n + d]
      <4>1. n \in 1 .. Len(binlog') /\ n + 1 \in 1 .. Len(binlog)
            /\ Len(handled) + (n + 1) = n + d
        BY <1>1, <2>1, <3>2
      <4>2. Log'[n] = binlog[n + 1]
        BY <2>1, <3>2, <4>1
      <4> QED
        BY <1>1, <4>1, <4>2
    <3>5. ShiftedBy(d)
      BY <3>3, <3>4 DEF ShiftedBy
    <3> QED
      BY <2>1, <3>1, <3>3, <3>5
  <2>4. CASE mode.mqDies
    <3>1. /\ handled' = Append(handled, Head(binlog)) /\ Head(binlog) = binlog[1]
          /\ Head(binlog) \in Change
      BY <1>6, <2>4 DEF Leave
    <3>2. /\ handled' \in Seq(Change) /\ Len(handled') = Len(handled) + 1
          /\ \A n \in 1 .. Len(handled) : handled'[n] = handled[n]
          /\ handled'[Len(handled) + 1] = binlog[1]
      BY <1>1, <3>1
    <3>3. /\ Log' \in Seq(Change) /\ Len(Log') = Len(handled') + Len(binlog')
          /\ \A n \in 1 .. Len(handled') : Log'[n] = handled'[n]
          /\ \A n \in 1 .. Len(binlog') : Log'[Len(handled') + n] = binlog'[n]
      <4>1. handled' \in Seq(Change) /\ binlog' \in Seq(Change)
        BY <2>1, <3>2
      <4>2. \A s, u \in Seq(Change) :
              /\ s \o u \in Seq(Change) /\ Len(s \o u) = Len(s) + Len(u)
              /\ \A n \in 1 .. Len(s) : (s \o u)[n] = s[n]
              /\ \A n \in 1 .. Len(u) : (s \o u)[Len(s) + n] = u[n]
        BY Concatenation
      <4>3. /\ handled' \o binlog' \in Seq(Change)
            /\ Len(handled' \o binlog') = Len(handled') + Len(binlog')
            /\ \A n \in 1 .. Len(handled') : (handled' \o binlog')[n] = handled'[n]
            /\ \A n \in 1 .. Len(binlog') : (handled' \o binlog')[Len(handled') + n] = binlog'[n]
        BY <4>1, <4>2, Zenon
      <4> QED
        BY <2>2, <4>3, Zenon
    <3>4. Len(Log') = Len(Log)
      BY <1>1, <2>1, <3>2, <3>3
    <3>5. ASSUME NEW n \in 1 .. Len(Log) PROVE Log'[n] = Log[n]
      <4>1. CASE n \in 1 .. Len(handled)
        <5>1. n \in 1 .. Len(handled')
          BY <1>1, <3>2, <4>1
        <5> QED
          BY <1>1, <3>2, <3>3, <4>1, <5>1
      <4>2. CASE n = Len(handled) + 1
        <5>1. n \in 1 .. Len(handled') /\ 1 \in 1 .. Len(binlog)
          BY <1>1, <2>1, <3>2, <4>2
        <5>2. Log'[n] = binlog[1]
          BY <3>2, <3>3, <4>2, <5>1
        <5>3. Log[n] = binlog[1]
          BY <1>1, <4>2, <5>1
        <5> QED
          BY <5>2, <5>3
      <4>3. CASE n > Len(handled) + 1
        <5> DEFINE m == n - (Len(handled) + 1)
        <5>1. /\ m \in 1 .. Len(binlog') /\ m + 1 \in 1 .. Len(binlog)
              /\ Len(handled') + m = n /\ Len(handled) + (m + 1) = n
          BY <1>1, <2>1, <3>2, <4>3
        <5> HIDE DEF m
        <5>2. Log'[n] = binlog'[m] /\ Log[n] = binlog[m + 1]
          BY <1>1, <3>3, <5>1
        <5> QED
          BY <2>1, <5>1, <5>2
      <4> QED
        BY <1>1, <4>1, <4>2, <4>3
    <3>6. ShiftedBy(0)
      <4>1. Len(Log) - 0 = Len(Log) /\ \A n \in 1 .. Len(Log) : n + 0 = n
        BY <1>1
      <4> QED
        BY <3>4, <3>5, <4>1 DEF ShiftedBy
    <3> QED
      BY <2>1, <3>2, <3>6
  <2> QED
    BY <2>3, <2>4
<1> QED
  BY <1>3, <1>4, <1>5, <1>6 DEF TopicMoves

LEMMA AppendMoves ==
    ASSUME binlog \in Seq(Change), NEW new \in Change, binlog' = Append(binlog, new)
    PROVE  /\ Len(binlog) \in Nat /\ Len(binlog') = Len(binlog) + 1
           /\ binlog' \in Seq(Change)
           /\ \A n \in 1 .. Len(binlog) : binlog'[n] = binlog[n]
           /\ binlog'[Len(binlog) + 1] = new
OBVIOUS

\* A set that is put in place of set k.
LEMMA PutMoves ==
    ASSUME TypeOK, NEW k \in SortKey, NEW members \in SUBSET (Article \cup {End}), Put(k, members)
    PROVE  /\ feed' \in [SortKey -> SUBSET (Article \cup {End})]
           /\ feed'[k] = members /\ \A j \in SortKey : j # k => feed'[j] = feed[j]
BY DEF TypeOK, Put

\* The rows a load reads, and the closing member only with all of them.
LEMMA PageMembers ==
    ASSUME NEW S \in SUBSET Article, NEW page \in Page(S)
    PROVE  /\ page \subseteq S \cup {End}
           /\ End \in page => page = S \cup {End}
<1>1. CASE S = {}
  BY <1>1 DEF Page
<1>2. CASE S # {} /\ Cardinality(S) < DefaultLimit
  BY <1>2 DEF Page
<1>3. CASE S # {} /\ ~ Cardinality(S) < DefaultLimit
  BY <1>3 DEF Page, kSubset
<1> QED
  BY <1>1, <1>2, <1>3

\* How one loader moves: it begins, reads, adds a member, gives up.
Begins(l) ==
    /\ load[l] = Unused /\ UNCHANGED feed
    /\ load'[l].todo = {} /\ (load'[l].deep => mode.deep \/ \E m \in Loader : load[m].deep)

Reads(l) ==
    /\ load'[l].key = load[l].key /\ load'[l].deep = load[l].deep /\ UNCHANGED feed
    /\ \E m \in Loader : \E rows \in RowsBelow(load[m].deep) : load'[l].todo \in Page(rows)

Adds(l) ==
    /\ Loading(l) /\ load'[l].key = load[l].key /\ load'[l].deep = load[l].deep
    /\ \E m \in load[l].todo :
         /\ m = End => load[l].todo = {End}
         /\ Put(load[l].key, feed[load[l].key] \cup {m})
         /\ load'[l].todo = load[l].todo \ {m}

GivesUp(l) ==
    /\ load'[l].key = load[l].key /\ load'[l].deep = load[l].deep
    /\ UNCHANGED feed /\ load'[l].todo = {}

LoadStep ==
    \/ \E k \in SortKey : ArticlesByUserId(k)
    \/ \E l \in Loader, k \in SortKey, deep \in BOOLEAN : Miss(l, k, deep)
    \/ \E l \in Loader : Fill(l) \/ LoseLoad(l)

LEMMA RowsBelowTyped ==
    ASSUME NEW deep, NEW rows \in RowsBelow(deep) PROVE rows \subseteq Visible
BY DEF RowsBelow

\* The new state of a loader, of which step and todo change.
LEMMA LoadBecomes ==
    ASSUME load \in [Loader -> LoadState], NEW l \in Loader, NEW step, NEW todo,
           \/ load' = [load EXCEPT ![l].step = step, ![l].todo = todo]
           \/ load' = [load EXCEPT ![l].todo = todo, ![l].step = step]
    PROVE  load' = [load EXCEPT ![l] = [key |-> load[l].key, deep |-> load[l].deep,
                                        step |-> step, todo |-> todo]]
<1>0. PICK K, D, S, T : LoadState = [key : K, deep : D, step : S, todo : T]
  BY DEF LoadState
<1>1. /\ load'[l] \in [key : K, deep : D, step : S \cup {step}, todo : T \cup {todo}]
      /\ \A m \in Loader : m # l => load'[m] = load[m]
  BY <1>0
<1>2. load'[l].key = load[l].key /\ load'[l].deep = load[l].deep
      /\ load'[l].step = step /\ load'[l].todo = todo
  BY <1>0
<1>3. load'[l] = [key |-> load'[l].key, deep |-> load'[l].deep,
                  step |-> load'[l].step, todo |-> load'[l].todo]
  BY <1>1
<1>4. load' = [m \in Loader |-> load'[m]]
  OBVIOUS
<1> QED
  BY <1>1, <1>2, <1>3, <1>4

\* And of the loaders that share a query.
LEMMA ShareMoves ==
    ASSUME load \in [Loader -> LoadState], NEW k, NEW step, NEW todo, Share(k, step, todo),
           NEW l \in Loader
    PROVE  load'[l] = load[l] \/ load'[l] = [key |-> load[l].key, deep |-> load[l].deep,
                                            step |-> step, todo |-> todo]
<1>0. PICK K, D, S, T : LoadState = [key : K, deep : D, step : S, todo : T]
  BY DEF LoadState
<1>1. CASE l \in Flight(k)
  <2>1. load'[l] \in [key : K, deep : D, step : S \cup {step}, todo : T \cup {todo}]
    BY <1>0, <1>1 DEF Share
  <2>2. load'[l].key = load[l].key /\ load'[l].deep = load[l].deep
        /\ load'[l].step = step /\ load'[l].todo = todo
    BY <1>0, <1>1 DEF Share
  <2>3. load'[l] = [key |-> load'[l].key, deep |-> load'[l].deep,
                    step |-> load'[l].step, todo |-> load'[l].todo]
    BY <2>1
  <2> QED
    BY <2>2, <2>3
<1>2. CASE l \notin Flight(k)
  BY <1>2 DEF Share
<1> QED
  BY <1>1, <1>2

LEMMA LoadMoves ==
    ASSUME TypeOK, LoadStep
    PROVE  /\ UNCHANGED <<mode, status, topic, index, job>>
           /\ load' \in [Loader -> LoadState]
           /\ \/ /\ UNCHANGED feed
                 /\ \A l \in Loader : load'[l] = load[l] \/ Begins(l) \/ Reads(l) \/ GivesUp(l)
              \/ \E l \in Loader : Adds(l) /\ \A i \in Loader : i # l => load'[i] = load[i]
<1>0. load \in [Loader -> LoadState]
  BY DEF TypeOK, LoadState
<1>1. UNCHANGED <<mode, status, topic, index, job>>
  BY DEF LoadStep, ArticlesByUserId, Miss, Fill, LoseLoad
<1>2. ASSUME NEW l \in Loader, NEW k \in SortKey, NEW deep \in BOOLEAN, Miss(l, k, deep)
      PROVE  /\ load' \in [Loader -> LoadState] /\ UNCHANGED feed
             /\ \A i \in Loader : load'[i] = load[i] \/ Begins(i)
  <2> DEFINE d == IF Flight(k) = {} THEN deep ELSE \E m \in Flight(k) : load[m].deep
             t == [key |-> k, step |-> "query", todo |-> {}, deep |-> d]
  <2>1. d \in BOOLEAN /\ (d => mode.deep \/ \E m \in Loader : load[m].deep)
    BY <1>2 DEF Miss, Flight
  <2>2. load' = [load EXCEPT ![l] = t] /\ UNCHANGED feed /\ load[l] = Unused
    BY <1>2 DEF Miss
  <2>3. t \in LoadState
    BY <2>1 DEF LoadState
  <2>4. t.todo = {} /\ (t.deep => mode.deep \/ \E m \in Loader : load[m].deep)
    BY <2>1
  <2> HIDE DEF t
  <2>5. load' \in [Loader -> LoadState] /\ load'[l] = t
        /\ \A i \in Loader : i # l => load'[i] = load[i]
    BY <1>0, <2>2, <2>3
  <2> QED
    BY <2>2, <2>4, <2>5 DEF Begins
<1>3. ASSUME NEW k \in SortKey, ArticlesByUserId(k)
      PROVE  /\ load' \in [Loader -> LoadState] /\ UNCHANGED feed
             /\ \A i \in Loader : load'[i] = load[i] \/ Reads(i)
  <2>1. PICK m \in Loader : \E rows \in RowsBelow(load[m].deep) : \E page \in Page(rows) :
                              \E step \in {"done", "fill"} : Share(k, step, page)
    BY <1>3 DEF ArticlesByUserId, Flight
  <2>2. PICK rows \in RowsBelow(load[m].deep) :
          \E page \in Page(rows) : \E step \in {"done", "fill"} : Share(k, step, page)
    BY <2>1
  <2>3. PICK page \in Page(rows) : \E step \in {"done", "fill"} : Share(k, step, page)
    BY <2>2
  <2>4. PICK step \in {"done", "fill"} : Share(k, step, page)
    BY <2>3
  <2>9. rows \in SUBSET Article
    BY RowsBelowTyped DEF Visible
  <2>10. page \in SUBSET (Article \cup {End})
    BY <2>9, PageMembers
  <2>5. /\ load' = [i \in Loader |-> load'[i]]
        /\ \A i \in Loader :
             load'[i] = load[i] \/ load'[i] = [key |-> load[i].key, deep |-> load[i].deep,
                                              step |-> step, todo |-> page]
    <3>1. load' = [i \in Loader |-> load'[i]]
      BY <2>4 DEF Share
    <3>2. ASSUME NEW i \in Loader
          PROVE  load'[i] = load[i] \/ load'[i] = [key |-> load[i].key, deep |-> load[i].deep,
                                                  step |-> step, todo |-> page]
      BY <1>0, <2>4, ShareMoves
    <3> QED
      BY <3>1, <3>2
  <2>6. load' \in [Loader -> LoadState]
    BY <1>0, <2>5, <2>10 DEF LoadState
  <2>7. UNCHANGED feed
    BY <1>3 DEF ArticlesByUserId
  <2>8. \A i \in Loader : load'[i] = load[i] \/
          (load'[i].key = load[i].key /\ load'[i].deep = load[i].deep /\ load'[i].todo = page)
    BY <2>5
  <2> QED
    BY <2>6, <2>7, <2>8 DEF Reads
<1>4. ASSUME NEW l \in Loader, Fill(l)
      PROVE  /\ load' \in [Loader -> LoadState]
             /\ Adds(l) /\ \A i \in Loader : i # l => load'[i] = load[i]
  <2>1. PICK m \in load[l].todo :
         /\ m = End => load[l].todo = {End}
         /\ Put(load[l].key, feed[load[l].key] \cup {m})
         /\ load' = [load EXCEPT ![l].todo = @ \ {m},
                                 ![l].step = IF load[l].todo = {m} THEN "done" ELSE "fill"]
    BY <1>4 DEF Fill
  <2>2. PICK step \in {"done", "fill"} :
          load' = [load EXCEPT ![l].todo = @ \ {m}, ![l].step = step]
    BY <2>1
  <2> DEFINE t == [key |-> load[l].key, deep |-> load[l].deep, step |-> step,
                   todo |-> load[l].todo \ {m}]
  <2>3. load' = [load EXCEPT ![l] = t]
    BY <1>0, <2>2, LoadBecomes
  <2>4. t \in LoadState
    BY <1>0 DEF LoadState
  <2>5. t.key = load[l].key /\ t.deep = load[l].deep /\ t.todo = load[l].todo \ {m}
    OBVIOUS
  <2> HIDE DEF t
  <2>6. load' \in [Loader -> LoadState] /\ load'[l] = t
        /\ \A i \in Loader : i # l => load'[i] = load[i]
    BY <1>0, <2>3, <2>4
  <2>7. Loading(l)
    BY <1>4 DEF Fill, Loading
  <2>8. Adds(l)
    BY <2>1, <2>5, <2>6, <2>7 DEF Adds
  <2> QED
    BY <2>6, <2>8
<1>5. ASSUME NEW l \in Loader, LoseLoad(l)
      PROVE  /\ load' \in [Loader -> LoadState] /\ UNCHANGED feed
             /\ \A i \in Loader : load'[i] = load[i] \/ GivesUp(i)
  <2> DEFINE t == [key |-> load[l].key, deep |-> load[l].deep, step |-> "done", todo |-> {}]
  <2>1. load' = [load EXCEPT ![l] = t]
    BY <1>0, <1>5, LoadBecomes DEF LoseLoad
  <2>2. t \in LoadState
    BY <1>0 DEF LoadState
  <2>3. UNCHANGED feed
    BY <1>5 DEF LoseLoad
  <2> QED
    BY <1>0, <2>1, <2>2, <2>3 DEF GivesUp
<1>6. CASE \E k \in SortKey : ArticlesByUserId(k)
  BY <1>1, <1>3, <1>6
<1>7. CASE \E l \in Loader, k \in SortKey, deep \in BOOLEAN : Miss(l, k, deep)
  BY <1>1, <1>2, <1>7
<1>8. CASE \E l \in Loader : Fill(l) \/ LoseLoad(l)
  BY <1>1, <1>4, <1>5, <1>8
<1> QED
  BY <1>6, <1>7, <1>8 DEF LoadStep

LEMMA StepKinds ==
    ASSUME Next
    PROVE  \/ \E w \in Writer, a \in Article : Publish(w, a) \/ ArticleDelete(w, a)
           \/ \E p \in Worker : Work(p) \/ Crash(p)
           \/ Take
           \/ Index
           \/ CommitOffset
           \/ Restart
           \/ LoadStep
           \/ \E k \in SortKey : ExpireSet(k)
BY DEF Next, Consume, LoadStep, Worker

LEMMA ShapedInit == Init => Shaped
BY DEF Init, Shaped, TypeOK, JobShaped, AtHead, Worker, Status, Unused, SortKey

\* A job that goes on keeps its shape.
LEMMA BecomesShaped ==
    ASSUME Shaped, NEW p \in Worker, NEW t \in {Free} \cup Job, Becomes(p, t),
           t # Free =>
             /\ t.op = "visible" => t.step \in {"exists", "zadd", "index"}
             /\ t.op = "deleted" => t.step \in {"zrem", "index"}
             /\ t.step = "index" => p = MQ /\ t.key = "like_num"
    PROVE  job' \in [Worker -> {Free} \cup Job] /\ JobShaped'
<1>1. /\ job' \in [Worker -> {Free} \cup Job]
      /\ job'[p] = t /\ \A q \in Worker : q # p => job'[q] = job[q]
  BY BecomesTyped DEF Shaped
<1> QED
  BY <1>1 DEF Shaped, JobShaped

LEMMA OnwardShaped ==
    ASSUME Shaped, NEW p \in Worker, job[p] # Free, NEW t, Onward(p, t), Becomes(p, t)
    PROVE  job' \in [Worker -> {Free} \cup Job] /\ JobShaped'
<1>1. t \in {Free} \cup Job
  BY OnwardTyped DEF Shaped
<1>2. t # Free =>
        /\ t.op = "visible" => t.step \in {"exists", "zadd", "index"}
        /\ t.op = "deleted" => t.step \in {"zrem", "index"}
        /\ t.step = "index" => p = MQ /\ t.key = "like_num"
  BY DEF Onward, FirstStep
<1> QED
  BY <1>1, <1>2, BecomesShaped

LEMMA ShapedStep == Shaped /\ [Next]_vars => Shaped'
<1> SUFFICES ASSUME Shaped, [Next]_vars PROVE Shaped'
  OBVIOUS
<1>0. /\ TypeOK /\ JobShaped /\ AtHead /\ Free \notin Job
      /\ binlog \in Seq(Change) /\ handled \in Seq(Change)
  BY DEF Shaped, TypeOK, Change, Free, Job
<1>1. ASSUME NEW w \in Writer, NEW a \in Article, Publish(w, a) \/ ArticleDelete(w, a)
      PROVE  Shaped'
  <2>1. PICK new \in RowStatus : RowChanges(w, a, new)
    BY <1>0, <1>1, RowMoves
  <2> DEFINE t == [op |-> new, article |-> a, key |-> "publish_time", step |-> FirstStep(new)]
  <2>2. t \in Job
    BY DEF Job, SortKey, FirstStep, RowStatus
  <2>3. /\ t.op = "visible" => t.step \in {"exists", "zadd", "index"}
        /\ t.op = "deleted" => t.step \in {"zrem", "index"}
        /\ t.step = "index" => w = MQ /\ t.key = "like_num"
    BY DEF FirstStep
  <2>4. Becomes(w, t) /\ w \in Worker
    BY <2>1 DEF RowChanges, Worker
  <2> HIDE DEF t
  <2>5. job' \in [Worker -> {Free} \cup Job] /\ JobShaped'
    BY <2>2, <2>3, <2>4, BecomesShaped
  <2>6. status' \in [Article -> Status]
    BY <1>0, <2>1 DEF RowChanges, TypeOK, Status
  <2>7. /\ binlog' = binlog \/ binlog' = Append(binlog, [article |-> a, status |-> new])
        /\ handled' = handled
    BY <2>1 DEF RowChanges
  <2>8. [article |-> a, status |-> new] \in Change
    BY DEF Change
  <2>9. binlog' \in Seq(Change) /\ (binlog # <<>> => binlog' # <<>> /\ binlog'[1] = binlog[1])
    BY <1>0, <2>7, <2>8, AppendMoves
  <2>10. job'[MQ] = job[MQ]
    BY <1>0, <2>2, <2>4, BecomesTyped DEF Worker
  <2>11. AtHead'
    BY <1>0, <2>9, <2>10 DEF AtHead
  <2> QED
    BY <1>0, <2>1, <2>5, <2>6, <2>7, <2>9, <2>11 DEF RowChanges, Shaped, TypeOK, Change
<1>2. ASSUME NEW p \in Worker, Work(p) \/ Crash(p) PROVE Shaped'
  <2>1. /\ job[p] # Free /\ UNCHANGED <<mode, status, index, load>>
        /\ Looks(p) \/ PutsIn(p) \/ TakesOut(p) \/ Fails(p)
    BY <1>0, <1>2, WorkMoves
  <2>2. /\ job[p] \in Job /\ job[p].article \in Article /\ job[p].key \in SortKey
        /\ job[p].op \in RowStatus
    BY <1>0, <2>1, JobTyped
  <2>3. ASSUME NEW t, Onward(p, t), Becomes(p, t)
        PROVE  job' \in [Worker -> {Free} \cup Job] /\ JobShaped'
    BY <2>1, <2>3, OnwardShaped
  <2>4. Becomes(p, Free) => job' \in [Worker -> {Free} \cup Job] /\ JobShaped'
    BY BecomesShaped
  <2>5. job[p].step = "exists" /\
        Becomes(p, [op |-> job[p].op, article |-> job[p].article, key |-> job[p].key,
                    step |-> "zadd"])
          => job' \in [Worker -> {Free} \cup Job] /\ JobShaped'
    <3> DEFINE t == [op |-> job[p].op, article |-> job[p].article, key |-> job[p].key,
                     step |-> "zadd"]
    <3> SUFFICES ASSUME job[p].step = "exists", Becomes(p, t)
                 PROVE  job' \in [Worker -> {Free} \cup Job] /\ JobShaped'
      OBVIOUS
    <3>1. job[p].op = "visible"
      BY <1>0, <2>1, <2>2 DEF JobShaped, RowStatus
    <3>2. t \in Job
      BY <2>2 DEF Job, RowStatus
    <3>3. t.op = "visible" /\ t.step = "zadd"
      BY <3>1
    <3> HIDE DEF t
    <3> QED
      BY <3>2, <3>3, BecomesShaped
  <2>6. job' \in [Worker -> {Free} \cup Job] /\ JobShaped'
    BY <2>1, <2>3, <2>4, <2>5 DEF Looks, PutsIn, TakesOut, Fails
  <2>7. feed' \in [SortKey -> SUBSET (Article \cup {End})]
    <3>1. feed[job[p].key] \in SUBSET (Article \cup {End})
      BY <1>0, <2>2 DEF TypeOK
    <3>2. \A members \in SUBSET (Article \cup {End}) :
            Put(job[p].key, members) => feed' \in [SortKey -> SUBSET (Article \cup {End})]
      BY <1>0, <2>2, PutMoves
    <3>3. PutsIn(p) \/ TakesOut(p) => feed' \in [SortKey -> SUBSET (Article \cup {End})]
      BY <2>2, <3>1, <3>2 DEF PutsIn, TakesOut
    <3> QED
      BY <1>0, <2>1, <3>3 DEF Looks, Fails, TypeOK
  <2>8. UNCHANGED topic \/ (p = MQ /\ Leave /\ Becomes(p, Free))
    BY <2>1 DEF Looks, PutsIn, TakesOut, Fails
  <2>9. binlog' \in Seq(Change) /\ handled' \in Seq(Change)
    BY <1>0, <2>1, <2>8, LogShifts DEF TopicMoves, AtHead
  <2>10. \E t \in {Free} \cup Job :
           Becomes(p, t) /\ (t # Free => t.article = job[p].article /\ t.op = job[p].op)
    <3>1. \A t : Onward(p, t) => t \in {Free} \cup Job
                   /\ (t # Free => t.article = job[p].article /\ t.op = job[p].op)
      BY <1>0, <2>1, OnwardTyped DEF Onward
    <3> DEFINE u == [op |-> job[p].op, article |-> job[p].article, key |-> job[p].key,
                     step |-> "zadd"]
    <3>2. u \in {Free} \cup Job /\ u.article = job[p].article /\ u.op = job[p].op
      BY <2>2 DEF Job, RowStatus
    <3> HIDE DEF u
    <3>3. Becomes(p, Free) \/ Becomes(p, u) \/ \E t : Onward(p, t) /\ Becomes(p, t)
      BY <2>1 DEF Looks, PutsIn, TakesOut, Fails, u
    <3> QED
      BY <3>1, <3>2, <3>3
  <2>11. AtHead'
    <3>1. PICK t \in {Free} \cup Job :
            Becomes(p, t) /\ (t # Free => t.article = job[p].article /\ t.op = job[p].op)
      BY <2>10
    <3>2. job'[p] = t /\ \A q \in Worker : q # p => job'[q] = job[q]
      BY <1>0, <3>1, BecomesTyped
    <3>3. MQ \in Worker
      BY DEF Worker
    <3>4. CASE UNCHANGED topic
      BY <1>0, <2>1, <3>1, <3>2, <3>3, <3>4 DEF AtHead, topic
    <3>5. CASE p = MQ /\ Becomes(p, Free)
      BY <1>0, <3>5, BecomesTyped DEF AtHead
    <3> QED
      BY <2>8, <3>4, <3>5
  <2> QED
    BY <1>0, <2>1, <2>6, <2>7, <2>9, <2>11 DEF Shaped, TypeOK, Change
<1>3. CASE Take
  <2>1. /\ binlog[1] \in Change
        /\ Becomes(MQ, [op |-> binlog[1].status, article |-> binlog[1].article,
                        key |-> "publish_time", step |-> FirstStep(binlog[1].status)])
        /\ UNCHANGED <<mode, status, topic, feed, index, load>>
    BY <1>0, <1>3, TakeMoves
  <2> DEFINE t == [op |-> binlog[1].status, article |-> binlog[1].article,
                   key |-> "publish_time", step |-> FirstStep(binlog[1].status)]
  <2>2. t \in Job
    BY <2>1 DEF Change, Job, SortKey, FirstStep, RowStatus
  <2>3. /\ t.op = "visible" => t.step \in {"exists", "zadd", "index"}
        /\ t.op = "deleted" => t.step \in {"zrem", "index"}
        /\ t.step # "index"
    BY DEF FirstStep
  <2>4. Becomes(MQ, t) /\ MQ \in Worker
    BY <2>1 DEF Worker
  <2> HIDE DEF t
  <2>5. job' \in [Worker -> {Free} \cup Job] /\ JobShaped'
    BY <2>2, <2>3, <2>4, BecomesShaped
  <2>6. binlog # <<>> /\ job'[MQ] = t /\ binlog[1] = [article |-> t.article, status |-> t.op]
    <3>1. job'[MQ] = t /\ binlog # <<>>
      BY <1>0, <1>3, <2>2, <2>4, BecomesTyped, TakeMoves
    <3> QED
      BY <2>1, <3>1 DEF t, Change
  <2>7. AtHead'
    BY <2>1, <2>6 DEF AtHead, topic
  <2> QED
    BY <1>0, <2>1, <2>5, <2>7 DEF Shaped, TypeOK, topic
<1>4. CASE Index
  <2>1. /\ job[MQ] # Free /\ Becomes(MQ, Free)
        /\ UNCHANGED <<mode, status, feed, load>>
        /\ Leave \/ UNCHANGED topic
        /\ index' = index \/ index' = [index EXCEPT ![job[MQ].article] = job[MQ].op]
    BY <1>0, <1>4, IndexMoves
  <2>2. MQ \in Worker
    BY DEF Worker
  <2>3. job[MQ].article \in Article /\ job[MQ].op \in Status
    BY <1>0, <2>1, <2>2, JobTyped DEF Status
  <2>4. index' \in [Article -> Status]
    BY <1>0, <2>1, <2>3 DEF TypeOK
  <2>5. job' \in [Worker -> {Free} \cup Job] /\ JobShaped'
    BY <2>1, <2>2, BecomesShaped
  <2>6. binlog' \in Seq(Change) /\ handled' \in Seq(Change)
    BY <1>0, <2>1, LogShifts DEF TopicMoves, AtHead
  <2>7. AtHead'
    BY <1>0, <2>1, <2>2, BecomesTyped DEF AtHead
  <2> QED
    BY <1>0, <2>1, <2>4, <2>5, <2>6, <2>7 DEF Shaped, TypeOK, Change
<1>5. CASE LoadStep
  <2>1. /\ UNCHANGED <<mode, status, topic, index, job>>
        /\ load' \in [Loader -> LoadState]
        /\ UNCHANGED feed \/ \E l \in Loader : Adds(l)
    BY <1>0, <1>5, LoadMoves
  <2>2. feed' \in [SortKey -> SUBSET (Article \cup {End})]
    BY <1>0, <2>1 DEF Adds, Put, TypeOK
  <2> QED
    BY <1>0, <2>1, <2>2 DEF Shaped, TypeOK, JobShaped, AtHead, LoadState, topic
<1>6. CASE \E k \in SortKey : ExpireSet(k)
  BY <1>0, <1>6 DEF ExpireSet, Put, Shaped, TypeOK, JobShaped, AtHead, topic
<1>7. CASE UNCHANGED vars
  BY <1>0, <1>7 DEF vars, topic, Shaped, TypeOK, JobShaped, AtHead
<1>8. CASE CommitOffset
  BY <1>0, <1>8 DEF CommitOffset, Shaped, TypeOK, JobShaped, AtHead
<1>9. CASE Restart
  <2>1. /\ Becomes(MQ, Free) /\ MQ \in Worker
        /\ UNCHANGED <<mode, status, feed, index, load>>
        /\ handled' = <<>> /\ binlog' = handled \o binlog
    BY <1>9 DEF Restart, Finish, Becomes, Worker
  <2>2. job' \in [Worker -> {Free} \cup Job] /\ JobShaped'
    BY <2>1, BecomesShaped
  <2>3. binlog' \in Seq(Change) /\ handled' \in Seq(Change)
    BY <1>0, <2>1, LogShifts DEF TopicMoves
  <2>4. AtHead'
    BY <1>0, <2>1, BecomesTyped DEF AtHead
  <2> QED
    BY <1>0, <2>1, <2>2, <2>3, <2>4 DEF Shaped, TypeOK, Change
<1> QED
  BY <1>1, <1>2, <1>3, <1>4, <1>5, <1>6, <1>7, <1>8, <1>9, StepKinds

LEMMA ShapedHolds == Spec => []Shaped
BY ShapedInit, ShapedStep, PTL DEF Spec

\* Types: TypeOK holds in every reachable state.
THEOREM TypeCorrect == Spec => []TypeOK
BY ShapedHolds, PTL DEF Shaped

--------------------------------------------------------------------------------
(* Messages, listings and the search index.                                    *)

\* A message more than before.
Longer(old, new, message) ==
    /\ Len(old) \in Nat /\ Len(new) = Len(old) + 1
    /\ \A n \in 1 .. Len(old) : new[n] = old[n]
    /\ new[Len(old) + 1] = message

LEMMA LogTyped ==
    ASSUME Shaped
    PROVE  /\ handled \in Seq(Change) /\ binlog \in Seq(Change)
           /\ Len(handled) \in Nat /\ Len(binlog) \in Nat /\ Len(Log) = Len(handled) + Len(binlog)
           /\ \A n \in 1 .. Len(handled) : Log[n] = handled[n]
           /\ \A n \in 1 .. Len(binlog) : Log[Len(handled) + n] = binlog[n]
           /\ Len(Log) \in Nat /\ \A n \in 1 .. Len(Log) : Log[n] \in Change
<1>1. handled \in Seq(Change) /\ binlog \in Seq(Change)
  BY DEF Shaped, TypeOK, Change
<1>2. /\ Len(handled) \in Nat /\ Len(binlog) \in Nat /\ Len(Log) = Len(handled) + Len(binlog)
      /\ Log \in Seq(Change)
      /\ \A n \in 1 .. Len(handled) : Log[n] = handled[n]
      /\ \A n \in 1 .. Len(binlog) : Log[Len(handled) + n] = binlog[n]
  BY <1>1, LogMoves
<1>3. Len(Log) \in Nat /\ \A n \in 1 .. Len(Log) : Log[n] \in Change
  BY <1>2
<1> QED
  BY <1>1, <1>2, <1>3

\* What a row change does, value by value.
RowBecomes(w, a, new) ==
    /\ MayWrite(w)
    /\ IF new = "visible" THEN status[a] = "absent" ELSE status[a] # "absent"
    /\ status'[a] = new /\ \A b \in Article : b # a => status'[b] = status[b]
    /\ job'[w].op = new /\ job'[w].article = a
    /\ \A q \in Worker : q # w => job'[q] = job[q]
    /\ UNCHANGED <<mode, feed, index, load>>
    /\ \/ status[a] = new /\ binlog' = binlog /\ Log' = Log
       \/ /\ status[a] # new
          /\ Longer(binlog, binlog', [article |-> a, status |-> new])
          /\ Longer(Log, Log', [article |-> a, status |-> new])

LEMMA RowStep ==
    ASSUME Shaped, NEW w \in Writer, NEW a \in Article, Publish(w, a) \/ ArticleDelete(w, a)
    PROVE  \E new \in RowStatus : RowBecomes(w, a, new)
<1>0. TypeOK /\ binlog \in Seq(Change) /\ w \in Worker
  BY DEF Shaped, TypeOK, Change, Worker
<1>1. PICK new \in RowStatus : RowChanges(w, a, new)
  BY <1>0, RowMoves
<1>2. status'[a] = new /\ \A b \in Article : b # a => status'[b] = status[b]
  BY <1>0, <1>1 DEF RowChanges, TypeOK
<1>3. [op |-> new, article |-> a, key |-> "publish_time", step |-> FirstStep(new)] \in Job
  BY DEF Job, SortKey, FirstStep, RowStatus
<1>4. /\ job'[w] = [op |-> new, article |-> a, key |-> "publish_time", step |-> FirstStep(new)]
      /\ \A q \in Worker : q # w => job'[q] = job[q]
  BY <1>0, <1>1, <1>3, BecomesTyped DEF RowChanges
<1>5. [article |-> a, status |-> new] \in Change
  BY DEF Change
<1>6. /\ handled' = handled
      /\ \/ status[a] = new /\ binlog' = binlog
         \/ status[a] # new /\ binlog' = Append(binlog, [article |-> a, status |-> new])
  BY <1>1 DEF RowChanges
<1>7. job'[w].op = new /\ job'[w].article = a
  BY <1>4
<1>8. CASE status[a] = new /\ binlog' = binlog
  <2>1. Log' = Log
    BY <1>6, <1>8 DEF Log
  <2> QED
    BY <1>1, <1>2, <1>4, <1>7, <1>8, <2>1 DEF RowChanges, RowBecomes
<1>9. CASE status[a] # new /\ binlog' = Append(binlog, [article |-> a, status |-> new])
  <2> DEFINE message == [article |-> a, status |-> new]
  <2> HIDE DEF message
  <2>1. message \in Change /\ binlog' = Append(binlog, message)
    BY <1>5, <1>9 DEF message
  <2>2. /\ Len(binlog) \in Nat /\ Len(binlog') = Len(binlog) + 1
        /\ binlog' \in Seq(Change)
        /\ \A n \in 1 .. Len(binlog) : binlog'[n] = binlog[n]
        /\ binlog'[Len(binlog) + 1] = message
    BY <1>0, <2>1, AppendMoves
  <2>3. /\ Len(handled) \in Nat /\ Len(Log) = Len(handled) + Len(binlog)
        /\ \A n \in 1 .. Len(handled) : Log[n] = handled[n]
        /\ \A n \in 1 .. Len(binlog) : Log[Len(handled) + n] = binlog[n]
    BY LogTyped
  <2>4. Log' = handled \o binlog' /\ handled \in Seq(Change)
    BY <1>6, LogTyped DEF Log
  <2>5. /\ Len(Log') = Len(handled) + Len(binlog')
        /\ \A n \in 1 .. Len(handled) : Log'[n] = handled[n]
        /\ \A n \in 1 .. Len(binlog') : Log'[Len(handled) + n] = binlog'[n]
    <3>1. /\ Len(handled \o binlog') = Len(handled) + Len(binlog')
          /\ \A n \in 1 .. Len(handled) : (handled \o binlog')[n] = handled[n]
          /\ \A n \in 1 .. Len(binlog') : (handled \o binlog')[Len(handled) + n] = binlog'[n]
      BY <2>2, <2>4, Concatenation
    <3> QED
      BY <2>4, <3>1, Zenon
  <2>6. Len(Log) \in Nat /\ Len(Log') = Len(Log) + 1
    BY <2>2, <2>3, <2>5
  <2>7. ASSUME NEW n \in 1 .. Len(Log) PROVE Log'[n] = Log[n]
    <3>1. CASE n \in 1 .. Len(handled)
      BY <2>3, <2>5, <3>1
    <3>2. CASE n > Len(handled)
      <4> DEFINE m == n - Len(handled)
      <4>1. /\ m \in 1 .. Len(binlog) /\ m \in 1 .. Len(binlog') /\ Len(handled) + m = n
        BY <2>2, <2>3, <3>2
      <4> HIDE DEF m
      <4> QED
        BY <2>2, <2>3, <2>5, <4>1
    <3> QED
      BY <2>3, <3>1, <3>2
  <2>8. Log'[Len(Log) + 1] = message
    <3>1. Len(binlog) + 1 \in 1 .. Len(binlog') /\ Len(handled) + (Len(binlog) + 1) = Len(Log) + 1
      BY <2>2, <2>3
    <3> QED
      BY <2>2, <2>5, <3>1
  <2>9. Longer(binlog, binlog', message) /\ Longer(Log, Log', message)
    BY <2>2, <2>6, <2>7, <2>8 DEF Longer
  <2>10. Longer(binlog, binlog', [article |-> a, status |-> new])
         /\ Longer(Log, Log', [article |-> a, status |-> new])
    BY <2>9 DEF message
  <2> QED
    BY <1>1, <1>2, <1>4, <1>7, <1>9, <2>10 DEF RowChanges, RowBecomes
<1> QED
  BY <1>6, <1>8, <1>9

\* What a step on the sets does, value by value.
LEMMA WorkStep ==
    ASSUME Shaped, NEW p \in Worker, Work(p) \/ Crash(p)
    PROVE  /\ UNCHANGED <<mode, status, index, load>>
           /\ job[p] # Free /\ job[p].article \in Article /\ job[p].key \in SortKey
           /\ job[p].op \in RowStatus
           /\ \A q \in Worker : q # p => job'[q] = job[q]
           /\ job'[p] # Free => job'[p].article = job[p].article /\ job'[p].op = job[p].op
           /\ \A k \in SortKey : k # job[p].key => feed'[k] = feed[k]
           /\ \/ feed'[job[p].key] = feed[job[p].key]
              \/ /\ job[p].op = "visible"
                 /\ feed'[job[p].key] = feed[job[p].key] \cup {job[p].article}
              \/ /\ job[p].op = "deleted"
                 /\ feed'[job[p].key] = feed[job[p].key] \ {job[p].article}
           /\ \/ UNCHANGED topic
              \/ p = MQ /\ mode.mqFails /\ Leave /\ job'[MQ] = Free
<1>0. TypeOK /\ JobShaped
  BY DEF Shaped
<1>1. /\ job[p] # Free /\ UNCHANGED <<mode, status, index, load>>
      /\ Looks(p) \/ PutsIn(p) \/ TakesOut(p) \/ Fails(p)
  BY <1>0, WorkMoves
<1>2. /\ job[p] \in Job /\ job[p].article \in Article /\ job[p].key \in SortKey
      /\ job[p].op \in RowStatus
  BY <1>0, <1>1, JobTyped
<1>3. \E t \in {Free} \cup Job :
        Becomes(p, t) /\ (t # Free => t.article = job[p].article /\ t.op = job[p].op)
  <2>1. \A t : Onward(p, t) => t \in {Free} \cup Job
                 /\ (t # Free => t.article = job[p].article /\ t.op = job[p].op)
    BY <1>0, <1>1, OnwardTyped DEF Onward
  <2> DEFINE u == [op |-> job[p].op, article |-> job[p].article, key |-> job[p].key,
                   step |-> "zadd"]
  <2>2. u \in {Free} \cup Job /\ u.article = job[p].article /\ u.op = job[p].op
    BY <1>2 DEF Job, RowStatus
  <2> HIDE DEF u
  <2>3. Becomes(p, Free) \/ Becomes(p, u) \/ \E t : Onward(p, t) /\ Becomes(p, t)
    BY <1>1 DEF Looks, PutsIn, TakesOut, Fails, u
  <2> QED
    BY <2>1, <2>2, <2>3
<1>4. /\ \A q \in Worker : q # p => job'[q] = job[q]
      /\ job'[p] # Free => job'[p].article = job[p].article /\ job'[p].op = job[p].op
  BY <1>0, <1>3, BecomesTyped
<1>5. feed[job[p].key] \in SUBSET (Article \cup {End})
  BY <1>0, <1>2 DEF TypeOK
<1>6. ASSUME NEW members \in SUBSET (Article \cup {End}), Put(job[p].key, members)
      PROVE  /\ feed'[job[p].key] = members
             /\ \A k \in SortKey : k # job[p].key => feed'[k] = feed[k]
  BY <1>0, <1>2, <1>6, PutMoves
<1>7. CASE PutsIn(p)
  <2>1. job[p].op = "visible"
    BY <1>0, <1>1, <1>2, <1>7 DEF PutsIn, JobShaped, RowStatus
  <2>2. /\ feed'[job[p].key] = feed[job[p].key] \cup {job[p].article}
        /\ \A k \in SortKey : k # job[p].key => feed'[k] = feed[k]
    BY <1>2, <1>5, <1>6, <1>7 DEF PutsIn
  <2> QED
    BY <1>1, <1>2, <1>4, <1>7, <2>1, <2>2 DEF PutsIn
<1>8. CASE TakesOut(p)
  <2>1. job[p].op = "deleted"
    BY <1>0, <1>1, <1>2, <1>8 DEF TakesOut, JobShaped, RowStatus
  <2>2. /\ feed'[job[p].key] = feed[job[p].key] \ {job[p].article}
        /\ \A k \in SortKey : k # job[p].key => feed'[k] = feed[k]
    BY <1>2, <1>5, <1>6, <1>8 DEF TakesOut
  <2> QED
    BY <1>1, <1>2, <1>4, <1>8, <2>1, <2>2 DEF TakesOut
<1>9. CASE Looks(p)
  BY <1>1, <1>2, <1>4, <1>9 DEF Looks
<1>10. CASE Fails(p)
  <2>1. \/ UNCHANGED topic
        \/ p = MQ /\ mode.mqFails /\ Leave /\ Becomes(p, Free)
    BY <1>10 DEF Fails, Failing
  <2>2. Becomes(p, Free) => job'[p] = Free
    BY <1>0, BecomesTyped
  <2> QED
    BY <1>1, <1>2, <1>4, <1>10, <2>1, <2>2 DEF Fails
<1> QED
  BY <1>1, <1>7, <1>8, <1>9, <1>10

\* Once past a status, a row stays past it.
LEMMA PastStays ==
    ASSUME Shaped, [Next]_vars, NEW a \in Article, NEW st \in RowStatus, Past(a, st)
    PROVE  Past(a, st)'
<1>1. ASSUME NEW w \in Writer, NEW b \in Article, Publish(w, b) \/ ArticleDelete(w, b)
      PROVE  Past(a, st)'
  <2>1. PICK new \in RowStatus : RowBecomes(w, b, new)
    BY <1>1, RowStep
  <2> QED
    BY <2>1 DEF RowBecomes, Past, RowStatus
<1>2. ASSUME UNCHANGED status PROVE Past(a, st)'
  BY <1>2 DEF Past
<1>3. ASSUME NEW p \in Worker, Work(p) \/ Crash(p) PROVE UNCHANGED status
  BY <1>3, WorkStep
<1>4. CASE LoadStep
  BY <1>2, <1>4, LoadMoves DEF Shaped
<1> QED
  BY <1>1, <1>2, <1>3, <1>4, StepKinds DEF Take, Index, CommitOffset, Restart, ExpireSet, vars

LEMMA RowsStay ==
    ASSUME Shaped, [Next]_vars, NEW a \in Article, status[a] # "absent"
    PROVE  status'[a] # "absent"
<1>1. status[a] \in RowStatus
  BY DEF Shaped, TypeOK, Status
<1> QED
  BY <1>1, PastStays DEF Past, RowStatus

\* Messages: how those in the topic answer for the rows.
LEMMA AppendStep ==
    ASSUME Shaped, Superseded, IndexAgrees, NEW w \in Writer, NEW a \in Article,
           Publish(w, a) \/ ArticleDelete(w, a)
    PROVE  Superseded' /\ IndexAgrees'
<1>0. /\ Len(Log) \in Nat /\ \A n \in 1 .. Len(Log) : Log[n] \in Change
      /\ Len(binlog) \in Nat
  BY LogTyped
<1>0a. PICK new \in RowStatus : RowBecomes(w, a, new)
  BY RowStep
<1>1. /\ status'[a] = new /\ \A b \in Article : b # a => status'[b] = status[b]
      /\ UNCHANGED <<mode, index>>
      /\ \/ status[a] = new /\ binlog' = binlog /\ Log' = Log
         \/ /\ status[a] # new
            /\ Longer(binlog, binlog', [article |-> a, status |-> new])
            /\ Longer(Log, Log', [article |-> a, status |-> new])
  BY <1>0a DEF RowBecomes
<1>2. CASE status[a] = new /\ binlog' = binlog /\ Log' = Log
  <2>1. \A b \in Article : status'[b] = status[b]
    BY <1>1, <1>2
  <2>2. \A n \in 1 .. Len(Log) : Log[n].article \in Article
    BY <1>0 DEF Change
  <2>3. Superseded'
    BY <1>2, <2>1, <2>2 DEF Superseded
  <2>4. IndexAgrees'
    BY <1>1, <1>2, <2>1 DEF IndexAgrees
  <2> QED
    BY <2>3, <2>4
<1>3. CASE /\ status[a] # new
           /\ Longer(binlog, binlog', [article |-> a, status |-> new])
           /\ Longer(Log, Log', [article |-> a, status |-> new])
  <2>0. /\ Len(Log') = Len(Log) + 1 /\ \A n \in 1 .. Len(Log) : Log'[n] = Log[n]
        /\ Log'[Len(Log) + 1] = [article |-> a, status |-> new]
    BY <1>3 DEF Longer
  <2>1. ASSUME NEW n \in 1 .. Len(Log'), Log'[n].status # status'[Log'[n].article]
        PROVE  \E m \in n + 1 .. Len(Log') :
                 Log'[m] = [article |-> Log'[n].article, status |-> status'[Log'[n].article]]
    <3>1. n \in 1 .. Len(Log) /\ Log'[n] = Log[n]
      BY <1>0, <1>1, <2>0, <2>1
    <3>2. CASE Log[n].article = a
      BY <1>0, <1>1, <2>0, <3>1, <3>2
    <3>3. CASE Log[n].article # a
      <4>1. status'[Log[n].article] = status[Log[n].article]
        BY <1>0, <1>1, <3>1, <3>3 DEF Change
      <4>2. PICK m \in n + 1 .. Len(Log) :
              Log[m] = [article |-> Log[n].article, status |-> status[Log[n].article]]
        BY <2>1, <3>1, <4>1 DEF Superseded
      <4>3. m \in 1 .. Len(Log) /\ m \in n + 1 .. Len(Log')
        BY <1>0, <2>0
      <4> QED
        BY <2>0, <3>1, <4>1, <4>2, <4>3
    <3> QED
      BY <3>2, <3>3
  <2>2. ASSUME ~mode'.mqFails, NEW b \in Article,
               \A n \in 1 .. Len(binlog') : binlog'[n].article # b
        PROVE  index'[b] = status'[b]
    <3>1. b # a
      BY <1>0, <1>3, <2>2 DEF Longer
    <3>2. \A n \in 1 .. Len(binlog) : binlog[n].article # b
      BY <1>0, <1>3, <2>2 DEF Longer
    <3> QED
      BY <1>1, <2>2, <3>1, <3>2 DEF IndexAgrees
  <2> QED
    BY <2>1, <2>2 DEF Superseded, IndexAgrees
<1> QED
  BY <1>1, <1>2, <1>3

\* Whatever else becomes of the topic, the rest of the log answers for itself.
LEMMA TopicStep ==
    ASSUME Shaped, Superseded, TopicMoves, UNCHANGED status PROVE Superseded'
<1>1. Len(Log) \in Nat /\ handled \in Seq(Change) /\ binlog \in Seq(Change)
  BY LogTyped
<1>2. PICK d \in Nat : ShiftedBy(d)
  BY <1>1, LogShifts
<1>3. Len(Log') = Len(Log) - d /\ \A n \in 1 .. Len(Log') : Log'[n] = Log[n + d]
  BY <1>2 DEF ShiftedBy
<1>4. ASSUME NEW n \in 1 .. Len(Log'), Log'[n].status # status[Log'[n].article]
      PROVE  \E m \in n + 1 .. Len(Log') :
               Log'[m] = [article |-> Log'[n].article, status |-> status[Log'[n].article]]
  <2>1. n + d \in 1 .. Len(Log) /\ Log'[n] = Log[n + d]
    BY <1>1, <1>3
  <2>2. PICK m \in (n + d) + 1 .. Len(Log) :
          Log[m] = [article |-> Log[n + d].article, status |-> status[Log[n + d].article]]
    BY <1>4, <2>1 DEF Superseded
  <2>3. m - d \in n + 1 .. Len(Log') /\ m - d \in 1 .. Len(Log') /\ (m - d) + d = m
    BY <1>1, <1>3, <2>2
  <2>4. Log'[m - d] = Log[m]
    BY <1>3, <2>3
  <2> QED
    BY <2>1, <2>2, <2>3, <2>4
<1> QED
  BY <1>4 DEF Superseded

\* So do the messages article-mq has not handled.
LEMMA BinlogSuperseded ==
    ASSUME Shaped, Superseded, NEW n \in 1 .. Len(binlog),
           binlog[n].status # status[binlog[n].article]
    PROVE  \E m \in n + 1 .. Len(binlog) :
             binlog[m] = [article |-> binlog[n].article, status |-> status[binlog[n].article]]
<1>1. /\ Len(handled) \in Nat /\ Len(binlog) \in Nat /\ Len(Log) = Len(handled) + Len(binlog)
      /\ \A i \in 1 .. Len(binlog) : Log[Len(handled) + i] = binlog[i]
  BY LogTyped
<1>2. Len(handled) + n \in 1 .. Len(Log) /\ Log[Len(handled) + n] = binlog[n]
  BY <1>1
<1>3. PICK j \in (Len(handled) + n) + 1 .. Len(Log) :
        Log[j] = [article |-> binlog[n].article, status |-> status[binlog[n].article]]
  BY <1>2 DEF Superseded
<1> DEFINE m == j - Len(handled)
<1>4. m \in n + 1 .. Len(binlog) /\ m \in 1 .. Len(binlog) /\ Len(handled) + m = j
  BY <1>1, <1>3
<1> HIDE DEF m
<1>5. binlog[m] = Log[j]
  BY <1>1, <1>4
<1> QED
  BY <1>3, <1>4, <1>5

\* The first message leaves; the document was written, or article-mq fails.
LEMMA TailStep ==
    ASSUME Shaped, Superseded, IndexAgrees, job[MQ] # Free, Leave,
           UNCHANGED <<mode, status>>,
           mode.mqFails \/ index' = [index EXCEPT ![job[MQ].article] = job[MQ].op]
    PROVE  Superseded' /\ IndexAgrees'
<1>1. /\ binlog \in Seq(Change) /\ binlog # <<>> /\ binlog' = Tail(binlog)
      /\ binlog[1] = [article |-> job[MQ].article, status |-> job[MQ].op]
      /\ index \in [Article -> Status] /\ MQ \in Worker
  BY DEF Shaped, TypeOK, AtHead, Change, Worker, Leave
<1>2. /\ Len(binlog) \in Nat /\ Len(binlog) >= 1 /\ Len(binlog') = Len(binlog) - 1
      /\ \A n \in 1 .. Len(binlog') : binlog'[n] = binlog[n + 1]
  BY <1>1, TailMoves
<1>3. ASSUME NEW n \in 2 .. Len(binlog)
      PROVE  n - 1 \in 1 .. Len(binlog') /\ binlog'[n - 1] = binlog[n]
  <2>1. n - 1 \in 1 .. Len(binlog') /\ (n - 1) + 1 = n
    BY <1>2
  <2> QED
    BY <1>2, <2>1
<1>4. Superseded'
  BY <1>1, TopicStep DEF TopicMoves
<1>5. ASSUME ~mode.mqFails, NEW b \in Article,
             \A n \in 1 .. Len(binlog') : binlog'[n].article # b
      PROVE  index'[b] = status[b]
  <2>1. \A n \in 2 .. Len(binlog) : binlog[n].article # b
    BY <1>3, <1>5
  <2>2. CASE binlog[1].article = b
    <3>1. binlog[1].status = status[b]
      <4>1. 1 \in 1 .. Len(binlog) /\ 1 + 1 = 2
        BY <1>2
      <4>2. binlog[1].status # status[b] =>
              \E m \in 2 .. Len(binlog) : binlog[m] = [article |-> b, status |-> status[b]]
        BY <2>2, <4>1, BinlogSuperseded
      <4> QED
        BY <2>1, <4>2
    <3> QED
      BY <1>1, <1>5, <2>2, <3>1
  <2>3. CASE binlog[1].article # b
    <3>1. \A n \in 1 .. Len(binlog) : binlog[n].article # b
      BY <1>2, <2>1, <2>3
    <3>2. index[b] = status[b]
      BY <1>5, <3>1 DEF IndexAgrees
    <3> QED
      BY <1>1, <1>5, <2>3, <3>2
  <2> QED
    BY <2>2, <2>3
<1> QED
  BY <1>4, <1>5 DEF IndexAgrees

\* article-mq begins again: what it may repeat stands before what is left.
LEMMA RestartStep ==
    ASSUME Shaped, Restart
    PROVE  /\ UNCHANGED <<mode, status, feed, index, load>> /\ TopicMoves
           /\ job'[MQ] = Free /\ \A q \in Worker : q # MQ => job'[q] = job[q]
           /\ binlog' = Log
<1>1. MQ \in Worker /\ TypeOK /\ Becomes(MQ, Free)
  BY DEF Worker, Shaped, Restart, Finish, Becomes
<1> QED
  BY <1>1, BecomesTyped DEF Restart, TopicMoves, Log

LEMMA RepeatStep ==
    ASSUME Shaped, Superseded, IndexAgrees, Restart PROVE Superseded' /\ IndexAgrees'
<1>1. /\ UNCHANGED <<mode, status, index>> /\ TopicMoves /\ binlog' = Log
  BY RestartStep
<1>2. /\ Len(handled) \in Nat /\ Len(binlog) \in Nat /\ Len(Log) = Len(handled) + Len(binlog)
      /\ \A n \in 1 .. Len(binlog) : Log[Len(handled) + n] = binlog[n]
  BY LogTyped
<1>3. ASSUME NEW n \in 1 .. Len(binlog)
      PROVE  Len(handled) + n \in 1 .. Len(binlog') /\ binlog'[Len(handled) + n] = binlog[n]
  BY <1>1, <1>2
<1>4. ASSUME NEW b, \A n \in 1 .. Len(binlog') : binlog'[n].article # b
      PROVE  \A n \in 1 .. Len(binlog) : binlog[n].article # b
  BY <1>3, <1>4
<1> QED
  BY <1>1, <1>4, TopicStep DEF IndexAgrees

LEMMA LoggedStep ==
    Shaped /\ Superseded /\ IndexAgrees /\ [Next]_vars => Superseded' /\ IndexAgrees'
<1> SUFFICES ASSUME Shaped, Superseded, IndexAgrees, [Next]_vars
             PROVE  Superseded' /\ IndexAgrees'
  OBVIOUS
<1>1. ASSUME UNCHANGED <<mode, status, topic, index>> PROVE Superseded' /\ IndexAgrees'
  BY <1>1, TopicStep DEF TopicMoves, IndexAgrees, topic
<1>2. ASSUME UNCHANGED <<mode, status, topic, index>> \/
             (UNCHANGED <<mode, status>> /\ mode.mqFails /\ job[MQ] # Free /\ Leave)
      PROVE  Superseded' /\ IndexAgrees'
  BY <1>1, <1>2, TailStep
<1>3. CASE \E w \in Writer, a \in Article : Publish(w, a) \/ ArticleDelete(w, a)
  BY <1>3, AppendStep
<1>4. CASE \E p \in Worker : Work(p) \/ Crash(p)
  BY <1>2, <1>4, WorkStep
<1>5. CASE Take
  BY <1>1, <1>5 DEF Take
<1>6. CASE Index
  <2>1. /\ job[MQ] # Free /\ UNCHANGED <<mode, status>>
        /\ \/ index' = [index EXCEPT ![job[MQ].article] = job[MQ].op] /\ Leave
           \/ mode.mqFails /\ (Leave \/ UNCHANGED topic)
    BY <1>6, IndexMoves DEF Shaped
  <2>2. CASE Leave
    BY <2>1, <2>2, TailStep
  <2>3. CASE mode.mqFails /\ UNCHANGED topic
    BY <2>1, <2>3, TopicStep DEF TopicMoves, IndexAgrees
  <2> QED
    BY <2>1, <2>2, <2>3
<1>7. CASE LoadStep
  BY <1>1, <1>7, LoadMoves DEF Shaped
<1>8. CASE \E k \in SortKey : ExpireSet(k)
  BY <1>1, <1>8 DEF ExpireSet
<1>9. CASE UNCHANGED vars
  BY <1>1, <1>9 DEF vars
<1>10. CASE CommitOffset
  BY <1>10, TopicStep DEF CommitOffset, TopicMoves, IndexAgrees
<1>11. CASE Restart
  BY <1>11, RepeatStep
<1> QED
  BY <1>3, <1>4, <1>5, <1>6, <1>7, <1>8, <1>9, <1>10, <1>11, StepKinds

LEMMA LoggedInit == Init => Superseded /\ IndexAgrees
<1> SUFFICES ASSUME Init PROVE Superseded /\ IndexAgrees
  OBVIOUS
<1>1. Log = <<>> /\ Len(Log) = 0
  BY DEF Init, Log
<1> QED
  BY <1>1 DEF Init, Superseded, IndexAgrees

\* The search index has the status of every row when all is quiet and no call of article-mq
\* failed, whatever article-rpc does and however often article-mq dies and repeats messages:
\* for any articles, goroutines and loads.
THEOREM IndexConverges == Spec => []SearchAgrees
<1>1. Shaped /\ IndexAgrees => SearchAgrees
  <2> SUFFICES ASSUME Shaped, IndexAgrees, Settled, ~mode.mqFails PROVE index = status
    BY DEF SearchAgrees
  <2>1. Len(binlog) = 0
    BY DEF Settled
  <2>2. \A a \in Article : index[a] = status[a]
    BY <2>1 DEF IndexAgrees
  <2>3. index = [a \in Article |-> index[a]] /\ status = [a \in Article |-> status[a]]
    BY DEF Shaped, TypeOK
  <2> QED
    BY <2>2, <2>3
<1> QED
  BY <1>1, ShapedInit, ShapedStep, LoggedInit, LoggedStep, PTL DEF Spec

--------------------------------------------------------------------------------
(* Every listed article has a row.                                             *)

\* What article-mq does with a message, value by value.
LEMMA TakeStep ==
    ASSUME Shaped, Take
    PROVE  /\ job[MQ] = Free /\ Len(binlog) \in Nat /\ Len(binlog) >= 1 /\ binlog[1] \in Change
           /\ job'[MQ] = [op |-> binlog[1].status, article |-> binlog[1].article,
                          key |-> "publish_time", step |-> FirstStep(binlog[1].status)]
           /\ job'[MQ] \in Job
           /\ \A q \in Worker : q # MQ => job'[q] = job[q]
           /\ UNCHANGED <<mode, status, topic, feed, index, load>>
<1>1. /\ job[MQ] = Free /\ binlog # <<>> /\ binlog[1] \in Change
      /\ Becomes(MQ, [op |-> binlog[1].status, article |-> binlog[1].article,
                      key |-> "publish_time", step |-> FirstStep(binlog[1].status)])
      /\ UNCHANGED <<mode, status, topic, feed, index, load>>
  BY TakeMoves DEF Shaped
<1>2. binlog \in Seq(Change)
  BY DEF Shaped, TypeOK, Change
<1>3. Len(binlog) \in Nat /\ Len(binlog) >= 1
  BY <1>1, <1>2
<1>4. [op |-> binlog[1].status, article |-> binlog[1].article,
       key |-> "publish_time", step |-> FirstStep(binlog[1].status)] \in Job
  BY <1>1 DEF Change, Job, SortKey, FirstStep, RowStatus
<1>5. MQ \in Worker /\ TypeOK
  BY DEF Worker, Shaped
<1> QED
  BY <1>1, <1>3, <1>4, <1>5, BecomesTyped

LEMMA IndexStep ==
    ASSUME Shaped, Index
    PROVE  /\ job[MQ] # Free /\ job[MQ].step = "index"
           /\ job'[MQ] = Free /\ \A q \in Worker : q # MQ => job'[q] = job[q]
           /\ UNCHANGED <<mode, status, feed, load>>
           /\ Leave \/ (mode.mqFails /\ UNCHANGED topic)
<1>1. MQ \in Worker /\ TypeOK
  BY DEF Worker, Shaped
<1> QED
  BY <1>1, IndexMoves, BecomesTyped

\* The first message is gone.
LEMMA TailShifts ==
    ASSUME Shaped, job[MQ] # Free, Leave
    PROVE  /\ Len(binlog) \in Nat /\ Len(binlog) >= 1 /\ Len(binlog') = Len(binlog) - 1
           /\ \A n \in 1 .. Len(binlog') : n + 1 \in 2 .. Len(binlog) /\ binlog'[n] = binlog[n + 1]
           /\ \A n \in 2 .. Len(binlog) : n - 1 \in 1 .. Len(binlog') /\ binlog'[n - 1] = binlog[n]
<1>1. binlog \in Seq(Change) /\ binlog # <<>> /\ binlog' = Tail(binlog)
  BY DEF Shaped, TypeOK, AtHead, Change, Leave
<1>2. /\ Len(binlog) \in Nat /\ Len(binlog) >= 1 /\ Len(binlog') = Len(binlog) - 1
      /\ \A n \in 1 .. Len(binlog') : binlog'[n] = binlog[n + 1]
  BY <1>1, TailMoves
<1>3. ASSUME NEW n \in 2 .. Len(binlog)
      PROVE  n - 1 \in 1 .. Len(binlog') /\ binlog'[n - 1] = binlog[n]
  <2>1. n - 1 \in 1 .. Len(binlog') /\ (n - 1) + 1 = n
    BY <1>2
  <2> QED
    BY <1>2, <2>1
<1>4. \A n \in 1 .. Len(binlog') : n + 1 \in 2 .. Len(binlog)
  BY <1>2
<1> QED
  BY <1>2, <1>3, <1>4

LEMMA MessagesTyped ==
    ASSUME Shaped
    PROVE  Len(binlog) \in Nat /\ \A n \in 1 .. Len(binlog) : binlog[n] \in Change
<1>1. binlog \in Seq(Change)
  BY DEF Shaped, TypeOK, Change
<1> QED
  BY <1>1

\* What the loads have read and the sets list has a row.
LEMMA LoadedStep ==
    ASSUME Shaped, ListedHasRow, LoadStep,
           \A l \in Loader : \A a \in load[l].todo \ {End} : status[a] # "absent"
    PROVE  /\ UNCHANGED <<status, topic, job>> /\ ListedHasRow'
           /\ \A l \in Loader : \A a \in load'[l].todo \ {End} : status'[a] # "absent"
<1>1. /\ UNCHANGED <<mode, status, topic, index, job>>
      /\ \/ /\ UNCHANGED feed
            /\ \A l \in Loader : load'[l] = load[l] \/ Begins(l) \/ Reads(l) \/ GivesUp(l)
         \/ \E l \in Loader : Adds(l) /\ \A i \in Loader : i # l => load'[i] = load[i]
  BY LoadMoves DEF Shaped
<1>2. CASE /\ UNCHANGED feed
           /\ \A l \in Loader : load'[l] = load[l] \/ Begins(l) \/ Reads(l) \/ GivesUp(l)
  <2>1. ListedHasRow'
    BY <1>1, <1>2 DEF ListedHasRow
  <2>2. ASSUME NEW l \in Loader, Reads(l), NEW a \in load'[l].todo \ {End}
        PROVE  status[a] # "absent"
    <3>1. PICK m \in Loader : \E rows \in RowsBelow(load[m].deep) : load'[l].todo \in Page(rows)
      BY <2>2 DEF Reads
    <3>2. PICK rows \in RowsBelow(load[m].deep) : load'[l].todo \in Page(rows)
      BY <3>1
    <3>3. rows \subseteq Visible /\ rows \in SUBSET Article
      BY RowsBelowTyped DEF Visible
    <3>4. load'[l].todo \subseteq rows \cup {End}
      BY <3>2, <3>3, PageMembers
    <3>5. a \in Visible
      BY <3>3, <3>4
    <3> QED
      BY <3>5 DEF Visible
  <2>3. ASSUME NEW l \in Loader, NEW a \in load'[l].todo \ {End}
        PROVE  status'[a] # "absent"
    BY <1>1, <1>2, <2>2, <2>3 DEF Begins, GivesUp
  <2> QED
    BY <1>1, <2>1, <2>3
<1>3. ASSUME NEW l \in Loader, Adds(l), \A i \in Loader : i # l => load'[i] = load[i]
      PROVE  /\ ListedHasRow'
             /\ \A i \in Loader : \A a \in load'[i].todo \ {End} : status'[a] # "absent"
  <2>1. load[l].key \in SortKey /\ load[l].todo \in SUBSET (Article \cup {End})
        /\ feed[load[l].key] \in SUBSET (Article \cup {End}) /\ TypeOK
    BY DEF Shaped, TypeOK
  <2>2. PICK m \in load[l].todo :
          /\ Put(load[l].key, feed[load[l].key] \cup {m})
          /\ load'[l].todo = load[l].todo \ {m}
    BY <1>3 DEF Adds
  <2>3. /\ feed'[load[l].key] = feed[load[l].key] \cup {m}
        /\ \A j \in SortKey : j # load[l].key => feed'[j] = feed[j]
    <3>1. feed[load[l].key] \cup {m} \in SUBSET (Article \cup {End})
      BY <2>1
    <3> QED
      BY <2>1, <2>2, <3>1, PutMoves
  <2>4. m # End => status[m] # "absent"
    BY <2>2
  <2>5. ListedHasRow'
    BY <1>1, <2>1, <2>3, <2>4 DEF ListedHasRow
  <2>6. \A i \in Loader : \A a \in load'[i].todo \ {End} : status'[a] # "absent"
    BY <1>1, <1>3, <2>2
  <2> QED
    BY <2>5, <2>6
<1> QED
  BY <1>1, <1>2, <1>3

LEMMA BehindStep == Shaped /\ RowsBehind /\ ListedHasRow /\ [Next]_vars
                      => RowsBehind' /\ ListedHasRow'
<1> SUFFICES ASSUME Shaped, RowsBehind, ListedHasRow, [Next]_vars
             PROVE  RowsBehind' /\ ListedHasRow'
  OBVIOUS
<1>0. /\ handled \in Seq(Change) /\ binlog \in Seq(Change) /\ Len(handled) \in Nat
      /\ Len(Log) \in Nat /\ \A n \in 1 .. Len(Log) : Log[n] \in Change
      /\ \A p \in Worker : job[p] # Free => job[p].article \in Article /\ job[p].op \in RowStatus
      /\ \A l \in Loader : load[l].todo \subseteq Article \cup {End}
      /\ \A k \in SortKey : feed[k] \subseteq Article \cup {End}
      /\ MQ \in Worker
  BY LogTyped, JobTyped DEF Shaped, TypeOK, Worker
<1>1. /\ \A a \in Article, st \in RowStatus : Past(a, st) => Past(a, st)'
      /\ \A a \in Article : status[a] # "absent" => status'[a] # "absent"
  BY PastStays, RowsStay
<1>2. \A n \in 1 .. Len(Log) :
        status'[Log[n].article] = Log[n].status \/ status'[Log[n].article] = "deleted"
  BY <1>0, <1>1 DEF RowsBehind, Change, Past
<1>3. ASSUME TopicMoves
      PROVE  \A n \in 1 .. Len(Log') : Past(Log[n].article, Log[n].status)'
  <2>1. PICK d \in Nat : ShiftedBy(d)
    BY <1>0, <1>3, LogShifts
  <2>2. \A n \in 1 .. Len(Log') : n + d \in 1 .. Len(Log) /\ Log'[n] = Log[n + d]
    BY <1>0, <2>1 DEF ShiftedBy
  <2> QED
    BY <1>2, <2>2 DEF Past
<1>4. (job[MQ] # Free /\ Leave) \/ UNCHANGED topic => TopicMoves
  BY DEF TopicMoves, Shaped, AtHead
<1>5. ASSUME NEW p \in Worker, job'[p] # Free =>
               job[p] # Free /\ job'[p].article = job[p].article /\ job'[p].op = job[p].op
      PROVE  (job[p] # Free => Past(job[p].article, job[p].op))'
  BY <1>0, <1>1, <1>5 DEF RowsBehind, Past
<1>6. ASSUME UNCHANGED load
      PROVE  \A l \in Loader : \A a \in load'[l].todo \ {End} : status'[a] # "absent"
  BY <1>0, <1>1, <1>6 DEF RowsBehind
<1>7. UNCHANGED feed => ListedHasRow'
  BY <1>0, <1>1 DEF ListedHasRow
<1>8. ASSUME NEW w \in Writer, NEW a \in Article, Publish(w, a) \/ ArticleDelete(w, a)
      PROVE  RowsBehind' /\ ListedHasRow'
  <2>0. PICK new \in RowStatus : RowBecomes(w, a, new)
    BY <1>8, RowStep
  <2>1. /\ status'[a] = new
        /\ job'[w].op = new /\ job'[w].article = a
        /\ \A q \in Worker : q # w => job'[q] = job[q]
        /\ UNCHANGED <<mode, feed, index, load>>
        /\ Log' = Log \/ Longer(Log, Log', [article |-> a, status |-> new])
    BY <2>0 DEF RowBecomes
  <2>2. ASSUME NEW n \in 1 .. Len(Log') PROVE Past(Log[n].article, Log[n].status)'
    <3>1. CASE n \in 1 .. Len(Log) /\ Log'[n] = Log[n]
      BY <1>2, <3>1 DEF Past
    <3>2. CASE Log'[n] = [article |-> a, status |-> new]
      BY <2>1, <3>2 DEF Past
    <3>3. CASE Longer(Log, Log', [article |-> a, status |-> new])
      <4>1. n \in 1 .. Len(Log) \/ n = Len(Log) + 1
        BY <1>0, <3>3 DEF Longer
      <4> QED
        BY <3>1, <3>2, <3>3, <4>1 DEF Longer
    <3> QED
      BY <2>1, <3>1, <3>3
  <2>3. ASSUME NEW p \in Worker PROVE (job[p] # Free => Past(job[p].article, job[p].op))'
    <3>1. CASE p = w
      BY <2>1, <3>1 DEF Past
    <3>2. CASE p # w
      BY <1>5, <2>1, <3>2
    <3> QED
      BY <3>1, <3>2
  <2> QED
    BY <1>6, <1>7, <2>1, <2>2, <2>3 DEF RowsBehind
<1>9. ASSUME NEW p \in Worker, Work(p) \/ Crash(p) PROVE RowsBehind' /\ ListedHasRow'
  <2>1. /\ UNCHANGED <<mode, status, index, load>>
        /\ job[p] # Free /\ job[p].article \in Article /\ job[p].key \in SortKey
        /\ \A q \in Worker : q # p => job'[q] = job[q]
        /\ job'[p] # Free => job'[p].article = job[p].article /\ job'[p].op = job[p].op
        /\ \A k \in SortKey : k # job[p].key => feed'[k] = feed[k]
        /\ feed'[job[p].key] \subseteq feed[job[p].key] \cup {job[p].article}
        /\ UNCHANGED topic \/ (p = MQ /\ Leave)
    BY <1>9, WorkStep
  <2>2. status[job[p].article] # "absent"
    BY <1>0, <2>1 DEF RowsBehind, Past, RowStatus
  <2>3. ListedHasRow'
    BY <2>1, <2>2 DEF ListedHasRow
  <2>4. \A q \in Worker : (job[q] # Free => Past(job[q].article, job[q].op))'
    BY <1>5, <2>1
  <2>5. \A n \in 1 .. Len(Log') : Past(Log[n].article, Log[n].status)'
    BY <1>3, <1>4, <2>1
  <2> QED
    BY <1>6, <2>1, <2>3, <2>4, <2>5 DEF RowsBehind
<1>10. CASE Take
  <2>1. /\ job'[MQ].op = binlog[1].status /\ job'[MQ].article = binlog[1].article
        /\ \A q \in Worker : q # MQ => job'[q] = job[q]
        /\ 1 \in 1 .. Len(binlog)
        /\ UNCHANGED <<mode, status, topic, feed, index, load>>
    BY <1>10, TakeStep
  <2>3. Len(handled) + 1 \in 1 .. Len(Log) /\ Log[Len(handled) + 1] = binlog[1]
    BY <2>1, LogTyped
  <2>2. ASSUME NEW p \in Worker PROVE (job[p] # Free => Past(job[p].article, job[p].op))'
    <3>1. CASE p = MQ
      BY <1>2, <2>1, <2>3, <3>1 DEF Past
    <3>2. CASE p # MQ
      BY <1>5, <2>1, <3>2
    <3> QED
      BY <3>1, <3>2
  <2> QED
    BY <1>3, <1>4, <1>6, <1>7, <2>1, <2>2 DEF RowsBehind
<1>11. CASE Index
  <2>1. /\ job[MQ] # Free /\ job'[MQ] = Free /\ \A q \in Worker : q # MQ => job'[q] = job[q]
        /\ UNCHANGED <<mode, status, feed, load>>
        /\ Leave \/ UNCHANGED topic
    BY <1>11, IndexStep
  <2>2. \A p \in Worker : (job[p] # Free => Past(job[p].article, job[p].op))'
    BY <1>5, <2>1
  <2> QED
    BY <1>3, <1>4, <1>6, <1>7, <2>1, <2>2 DEF RowsBehind
<1>12. CASE LoadStep
  <2>1. /\ UNCHANGED <<status, topic, job>> /\ ListedHasRow'
        /\ \A l \in Loader : \A a \in load'[l].todo \ {End} : status'[a] # "absent"
    BY <1>12, LoadedStep DEF RowsBehind
  <2> QED
    BY <1>3, <1>4, <1>5, <2>1 DEF RowsBehind
<1>13. ASSUME NEW k \in SortKey, ExpireSet(k) PROVE RowsBehind' /\ ListedHasRow'
  <2>1. UNCHANGED <<status, topic, job, load>> /\ \A j \in SortKey : feed'[j] \subseteq feed[j]
    BY <1>0, <1>13 DEF ExpireSet, Put, Shaped, TypeOK
  <2>2. ListedHasRow'
    BY <2>1 DEF ListedHasRow
  <2> QED
    BY <1>3, <1>4, <1>5, <1>6, <2>1, <2>2 DEF RowsBehind
<1>14. CASE UNCHANGED vars
  BY <1>3, <1>4, <1>5, <1>6, <1>7, <1>14 DEF vars, RowsBehind
<1>15. CASE CommitOffset
  <2>1. TopicMoves /\ UNCHANGED <<job, load, feed>>
    BY <1>15 DEF CommitOffset, TopicMoves
  <2> QED
    BY <1>3, <1>5, <1>6, <1>7, <2>1 DEF RowsBehind
<1>16. CASE Restart
  <2>1. /\ UNCHANGED <<mode, status, feed, index, load>> /\ TopicMoves
        /\ job'[MQ] = Free /\ \A q \in Worker : q # MQ => job'[q] = job[q]
    BY <1>16, RestartStep
  <2>2. \A p \in Worker : (job[p] # Free => Past(job[p].article, job[p].op))'
    BY <1>5, <2>1
  <2> QED
    BY <1>3, <1>6, <1>7, <2>1, <2>2 DEF RowsBehind
<1> QED
  BY <1>8, <1>9, <1>10, <1>11, <1>12, <1>13, <1>14, <1>15, <1>16, StepKinds

LEMMA BehindInit == Init => RowsBehind /\ ListedHasRow
<1> SUFFICES ASSUME Init PROVE RowsBehind /\ ListedHasRow
  OBVIOUS
<1>1. Log = <<>> /\ Len(Log) = 0
  BY DEF Init, Log
<1> QED
  BY <1>1 DEF Init, RowsBehind, ListedHasRow, Unused, Worker, SortKey

--------------------------------------------------------------------------------
(* Writers and loads, when rows do not change under them.                      *)

LEMMA WritersInit == Init => WritersAgree /\ LoadsAgree
BY DEF Init, WritersAgree, LoadsAgree, Worker, Free, Loading, Unused

LEMMA WritersStep == Shaped /\ WritersAgree /\ [Next]_vars => WritersAgree'
<1> SUFFICES ASSUME Shaped, WritersAgree, [Next]_vars, mode'.sequential,
                    NEW v \in Writer, job'[v].op = "visible"
             PROVE  status'[job'[v].article] = "visible"
  BY DEF WritersAgree
<1>0. v \in Worker /\ v # MQ
  BY DEF Worker
<1>1. ASSUME UNCHANGED <<mode, status>>, job'[v] = job[v]
      PROVE  status'[job'[v].article] = "visible"
  BY <1>1 DEF WritersAgree
<1>2. ASSUME NEW w \in Writer, NEW a \in Article, Publish(w, a) \/ ArticleDelete(w, a)
      PROVE  status'[job'[v].article] = "visible"
  <2>1. PICK new \in RowStatus : RowBecomes(w, a, new)
    BY <1>2, RowStep
  <2>2. CASE v = w
    BY <2>1, <2>2 DEF RowBecomes
  <2>3. CASE v # w
    <3>1. job'[v] = job[v] /\ job[v] = Free
      BY <1>0, <2>1, <2>3 DEF RowBecomes, MayWrite
    <3> QED
      BY <3>1 DEF Free
  <2> QED
    BY <2>2, <2>3
<1>3. ASSUME NEW p \in Worker, Work(p) \/ Crash(p)
      PROVE  status'[job'[v].article] = "visible"
  <2>1. /\ UNCHANGED <<mode, status>>
        /\ \A q \in Worker : q # p => job'[q] = job[q]
        /\ job'[p] # Free => job'[p].article = job[p].article /\ job'[p].op = job[p].op
    BY <1>3, WorkStep
  <2>2. job'[v] # Free
    BY DEF Free
  <2> QED
    BY <1>0, <1>1, <2>1, <2>2 DEF WritersAgree
<1>4. CASE Take
  BY <1>0, <1>1, <1>4, TakeStep
<1>5. CASE Index
  BY <1>0, <1>1, <1>5, IndexStep
<1>6. CASE LoadStep
  BY <1>1, <1>6, LoadMoves DEF Shaped
<1>7. CASE \E k \in SortKey : ExpireSet(k)
  BY <1>1, <1>7 DEF ExpireSet
<1>8. CASE UNCHANGED vars
  BY <1>1, <1>8 DEF vars
<1>9. CASE CommitOffset
  BY <1>1, <1>9 DEF CommitOffset
<1>10. CASE Restart
  BY <1>0, <1>1, <1>10, RestartStep
<1> QED
  BY <1>2, <1>3, <1>4, <1>5, <1>6, <1>7, <1>8, <1>9, <1>10, StepKinds

\* What one loader has read, and what is left for it to add.
LoaderAgrees(l) ==
    ~mode.overlap /\ Loading(l) =>
        /\ load[l].todo \ {End} \subseteq Visible
        /\ ~mode.deep /\ End \in load[l].todo =>
             Visible \subseteq feed[load[l].key] \cup load[l].todo

LEMMA LoadersStep ==
    Shaped /\ RowsBehind /\ LoadsAgree /\ [Next]_vars => LoadsAgree'
<1> SUFFICES ASSUME Shaped, RowsBehind, LoadsAgree, [Next]_vars PROVE LoadsAgree'
  OBVIOUS
<1>0. /\ \A l \in Loader : (load[l].deep => mode.deep) /\ LoaderAgrees(l)
      /\ \A l \in Loader : load[l].key \in SortKey /\ load[l].todo \subseteq Article \cup {End}
      /\ \A k \in SortKey : feed[k] \subseteq Article \cup {End}
  BY DEF LoadsAgree, LoaderAgrees, Shaped, TypeOK
<1> SUFFICES ASSUME NEW l \in Loader
             PROVE  (load'[l].deep => mode'.deep) /\ LoaderAgrees(l)'
  BY DEF LoadsAgree, LoaderAgrees
<1>1. ASSUME UNCHANGED <<mode, status, feed>>, load'[l] = load[l]
      PROVE  (load'[l].deep => mode'.deep) /\ LoaderAgrees(l)'
  BY <1>0, <1>1 DEF LoaderAgrees, Loading, Visible
<1>2. ASSUME UNCHANGED <<mode, status>>, load'[l] = load[l],
             Visible \cap feed[load[l].key] \subseteq feed'[load[l].key]
      PROVE  (load'[l].deep => mode'.deep) /\ LoaderAgrees(l)'
  <2>1. Visible' = Visible /\ Loading(l)' = Loading(l)
    BY <1>2 DEF Visible, Loading
  <2> QED
    BY <1>0, <1>2, <2>1 DEF LoaderAgrees
<1>3. ASSUME NEW w \in Writer, NEW a \in Article, Publish(w, a) \/ ArticleDelete(w, a)
      PROVE  (load'[l].deep => mode'.deep) /\ LoaderAgrees(l)'
  <2>1. PICK new \in RowStatus : RowBecomes(w, a, new)
    BY <1>3, RowStep
  <2>2. UNCHANGED <<mode, load>> /\ (mode.overlap \/ ~Loading(l))
    BY <2>1 DEF RowBecomes, MayWrite
  <2> QED
    BY <1>0, <2>2 DEF LoaderAgrees, Loading
<1>4. ASSUME NEW p \in Worker, Work(p) \/ Crash(p)
      PROVE  (load'[l].deep => mode'.deep) /\ LoaderAgrees(l)'
  <2>1. /\ UNCHANGED <<mode, status, load>>
        /\ job[p] # Free /\ job[p].article \in Article /\ job[p].key \in SortKey
        /\ \A k \in SortKey : k # job[p].key => feed'[k] = feed[k]
        /\ \/ feed[job[p].key] \subseteq feed'[job[p].key]
           \/ /\ job[p].op = "deleted"
              /\ feed'[job[p].key] = feed[job[p].key] \ {job[p].article}
    BY <1>4, WorkStep
  <2>2. job[p].op = "deleted" => job[p].article \notin Visible
    BY <2>1 DEF RowsBehind, Past, Visible
  <2>3. Visible \cap feed[load[l].key] \subseteq feed'[load[l].key]
    BY <1>0, <2>1, <2>2
  <2> QED
    BY <1>2, <2>1, <2>3
<1>5. CASE Take
  BY <1>1, <1>5, TakeStep
<1>6. CASE Index
  BY <1>1, <1>6, IndexStep
<1>7. CASE LoadStep
  <2>1. /\ UNCHANGED <<mode, status, topic, index, job>>
        /\ \/ /\ UNCHANGED feed
              /\ load'[l] = load[l] \/ Begins(l) \/ Reads(l) \/ GivesUp(l)
           \/ \E i \in Loader : Adds(i) /\ \A j \in Loader : j # i => load'[j] = load[j]
    BY <1>7, LoadMoves DEF Shaped
  <2>2. Visible' = Visible
    BY <2>1 DEF Visible
  <2>3. ASSUME UNCHANGED feed, Begins(l) \/ GivesUp(l)
        PROVE  (load'[l].deep => mode'.deep) /\ LoaderAgrees(l)'
    BY <1>0, <2>1, <2>3 DEF Begins, GivesUp, LoaderAgrees
  <2>4. CASE Reads(l)
    <3>1. PICK m \in Loader : \E rows \in RowsBelow(load[m].deep) : load'[l].todo \in Page(rows)
      BY <2>4 DEF Reads
    <3>2. PICK rows \in RowsBelow(load[m].deep) : load'[l].todo \in Page(rows)
      BY <3>1
    <3>3. rows \subseteq Visible /\ rows \in SUBSET Article
      BY RowsBelowTyped DEF Visible
    <3>4. /\ load'[l].todo \subseteq rows \cup {End}
          /\ End \in load'[l].todo => load'[l].todo = rows \cup {End}
      BY <3>2, <3>3, PageMembers
    <3>5. ~mode.overlap /\ ~mode.deep => rows = Visible
      BY <1>0, <3>2 DEF RowsBelow
    <3>6. load'[l].deep = load[l].deep
      BY <2>4 DEF Reads
    <3> QED
      BY <1>0, <2>1, <2>2, <3>3, <3>4, <3>5, <3>6 DEF LoaderAgrees
  <2>5. ASSUME NEW i \in Loader, Adds(i), \A j \in Loader : j # i => load'[j] = load[j]
        PROVE  (load'[l].deep => mode'.deep) /\ LoaderAgrees(l)'
    <3>1. PICK m \in load[i].todo :
            /\ Put(load[i].key, feed[load[i].key] \cup {m})
            /\ load'[i].todo = load[i].todo \ {m}
      BY <2>5 DEF Adds
    <3>2. feed[load[i].key] \cup {m} \in SUBSET (Article \cup {End}) /\ TypeOK
      BY <1>0 DEF Shaped
    <3>3. /\ feed'[load[i].key] = feed[load[i].key] \cup {m}
          /\ \A j \in SortKey : j # load[i].key => feed'[j] = feed[j]
      BY <1>0, <3>1, <3>2, PutMoves
    <3>4. CASE i = l
      <4>1. Loading(l) /\ load'[l].key = load[l].key /\ load'[l].deep = load[l].deep
        BY <2>5, <3>4 DEF Adds
      <4> QED
        BY <1>0, <2>1, <2>2, <3>1, <3>3, <3>4, <4>1 DEF LoaderAgrees
    <3>5. CASE i # l
      BY <1>0, <1>2, <2>1, <2>5, <3>3, <3>5
    <3> QED
      BY <3>4, <3>5
  <2> QED
    BY <1>1, <2>1, <2>3, <2>4, <2>5
<1>8. ASSUME NEW k \in SortKey, ExpireSet(k)
      PROVE  (load'[l].deep => mode'.deep) /\ LoaderAgrees(l)'
  <2>1. /\ UNCHANGED <<mode, status, load>>
        /\ mode.overlap \/ (load[l].key = k => ~Loading(l))
        /\ \A j \in SortKey : j # k => feed'[j] = feed[j]
    BY <1>8 DEF ExpireSet, Put, Shaped, TypeOK
  <2>2. CASE load[l].key = k
    BY <1>0, <2>1, <2>2 DEF LoaderAgrees, Loading
  <2>3. CASE load[l].key # k
    BY <1>0, <1>2, <2>1, <2>3
  <2> QED
    BY <2>2, <2>3
<1>9. CASE UNCHANGED vars
  BY <1>1, <1>9 DEF vars
<1>10. CASE CommitOffset
  BY <1>1, <1>10 DEF CommitOffset
<1>11. CASE Restart
  BY <1>1, <1>11, RestartStep
<1> QED
  BY <1>3, <1>4, <1>5, <1>6, <1>7, <1>8, <1>9, <1>10, <1>11, StepKinds

--------------------------------------------------------------------------------
(* Why article-mq makes up for what article-rpc lost.                          *)

\* What is listed and deleted is going to be removed from set k ...
Removal(k, a) == a \in feed[k] /\ status[a] = "deleted" => Due(k, a, "deleted")

\* ... and what it lacks although it is closed is going to be added.
Addition(k, a) ==
    ~mode.deep /\ End \in feed[k] /\ status[a] = "visible" /\ a \notin feed[k] =>
        Due(k, a, "visible")

\* Some message after the first says so.
Behind(a, st) == \E n \in 2 .. Len(binlog) : binlog[n] = [article |-> a, status |-> st]

\* A due message stays due while it stays in its place and article-mq does not get past it.
LEMMA DueStays ==
    ASSUME Shaped, NEW k, NEW a, NEW st, Due(k, a, st),
           \A n \in 1 .. Len(binlog) : n \in 1 .. Len(binlog') /\ binlog'[n] = binlog[n],
           (job[MQ] # Free => Ahead(k)) => (job'[MQ] # Free => Ahead(k)')
    PROVE  Due(k, a, st)'
<1>1. PICK n \in 1 .. Len(binlog) :
        binlog[n] = [article |-> a, status |-> st] /\ (n = 1 /\ job[MQ] # Free => Ahead(k))
  BY DEF Due
<1>2. n \in 1 .. Len(binlog') /\ binlog'[n] = [article |-> a, status |-> st]
  BY <1>1
<1>3. n = 1 /\ job'[MQ] # Free => Ahead(k)'
  BY <1>1
<1> QED
  BY <1>2, <1>3 DEF Due

\* A later message is due whatever article-mq is at.
LEMMA BehindIsDue ==
    ASSUME NEW k, NEW a, NEW st, Len(binlog) \in Nat, Behind(a, st)
    PROVE  Due(k, a, st)
<1>1. PICK n \in 2 .. Len(binlog) : binlog[n] = [article |-> a, status |-> st]
  BY DEF Behind
<1>2. n \in 1 .. Len(binlog) /\ n # 1
  OBVIOUS
<1> QED
  BY <1>1, <1>2 DEF Due

LEMMA BehindIsDueNext ==
    ASSUME NEW k, NEW a, NEW st, Len(binlog) \in Nat, Behind(a, st), UNCHANGED binlog
    PROVE  Due(k, a, st)'
<1>1. PICK n \in 2 .. Len(binlog) : binlog[n] = [article |-> a, status |-> st]
  BY DEF Behind
<1>2. n \in 1 .. Len(binlog') /\ n # 1
  OBVIOUS
<1> QED
  BY <1>1, <1>2 DEF Due

\* A due message is the first, or it comes later.
LEMMA DueOrBehind ==
    ASSUME Shaped, NEW k, NEW a, NEW st, Due(k, a, st), job[MQ] # Free
    PROVE  \/ Behind(a, st)
           \/ a = job[MQ].article /\ st = job[MQ].op /\ Ahead(k)
<1>0. Len(binlog) \in Nat
  BY MessagesTyped
<1>1. PICK n \in 1 .. Len(binlog) :
        binlog[n] = [article |-> a, status |-> st] /\ (n = 1 /\ job[MQ] # Free => Ahead(k))
  BY DEF Due
<1>2. CASE n = 1
  BY <1>1, <1>2 DEF Shaped, AtHead
<1>3. CASE n # 1
  <2>1. n \in 2 .. Len(binlog)
    BY <1>0, <1>3
  <2> QED
    BY <1>1, <2>1 DEF Behind
<1> QED
  BY <1>2, <1>3

\* A row change adds its message.
LEMMA RowCompensated ==
    ASSUME Shaped, NEW w \in Writer, NEW b \in Article, NEW new \in RowStatus,
           RowBecomes(w, b, new), NEW k \in SortKey, NEW a \in Article,
           Removal(k, a), Addition(k, a)
    PROVE  Removal(k, a)' /\ Addition(k, a)'
<1>0. Len(binlog) \in Nat /\ MQ \in Worker /\ w # MQ
  BY MessagesTyped DEF Worker
<1>1. /\ UNCHANGED <<mode, feed>> /\ job'[MQ] = job[MQ]
      /\ status'[b] = new /\ \A c \in Article : c # b => status'[c] = status[c]
      /\ \/ status[b] = new /\ binlog' = binlog
         \/ /\ status[b] # new
            /\ Len(binlog') = Len(binlog) + 1
            /\ \A n \in 1 .. Len(binlog) : binlog'[n] = binlog[n]
            /\ binlog'[Len(binlog) + 1] = [article |-> b, status |-> new]
  BY <1>0 DEF RowBecomes, Longer
<1>2. \A n \in 1 .. Len(binlog) : n \in 1 .. Len(binlog') /\ binlog'[n] = binlog[n]
  BY <1>0, <1>1
<1>3. (job[MQ] # Free => Ahead(k)) => (job'[MQ] # Free => Ahead(k)')
  BY <1>1 DEF Ahead
<1>4. ASSUME NEW st, Due(k, a, st) PROVE Due(k, a, st)'
  BY <1>2, <1>3, <1>4, DueStays
<1>5. CASE status'[a] = status[a]
  BY <1>1, <1>4, <1>5 DEF Removal, Addition
<1>6. CASE a = b /\ status[b] # new
  <2>1. Len(binlog) + 1 \in 1 .. Len(binlog')
        /\ binlog'[Len(binlog) + 1] = [article |-> a, status |-> new]
    BY <1>0, <1>1, <1>6
  <2>2. Len(binlog) + 1 = 1 => job'[MQ] = Free
    <3>1. SUFFICES ASSUME Len(binlog) = 0 PROVE job[MQ] = Free
      BY <1>0, <1>1
    <3>2. binlog = <<>>
      BY <3>1 DEF Shaped, TypeOK
    <3> QED
      BY <3>2 DEF Shaped, AtHead
  <2>3. Due(k, a, new)'
    BY <2>1, <2>2 DEF Due
  <2> QED
    BY <1>1, <1>6, <2>3 DEF Removal, Addition
<1> QED
  BY <1>1, <1>5, <1>6

\* What article-rpc does to the sets is what the row says.
LEMMA WriterCompensated ==
    ASSUME Shaped, RowsBehind, WritersAgree, mode.sequential,
           NEW w \in Writer, Work(w) \/ Crash(w), NEW k \in SortKey, NEW a \in Article,
           Removal(k, a), Addition(k, a)
    PROVE  Removal(k, a)' /\ Addition(k, a)'
<1>0. w \in Worker /\ MQ \in Worker /\ w # MQ
  BY DEF Worker
<1>1. /\ UNCHANGED <<mode, status, binlog>> /\ job'[MQ] = job[MQ]
      /\ job[w] # Free /\ job[w].article \in Article /\ job[w].key \in SortKey
      /\ \A j \in SortKey : j # job[w].key => feed'[j] = feed[j]
      /\ \/ feed'[job[w].key] = feed[job[w].key]
         \/ /\ job[w].op = "visible"
            /\ feed'[job[w].key] = feed[job[w].key] \cup {job[w].article}
         \/ /\ job[w].op = "deleted"
            /\ feed'[job[w].key] = feed[job[w].key] \ {job[w].article}
  BY <1>0, WorkStep DEF topic
<1>2. /\ job[w].op = "visible" => status[job[w].article] = "visible"
      /\ job[w].op = "deleted" => status[job[w].article] = "deleted"
  BY <1>0, <1>1 DEF WritersAgree, RowsBehind, Past
<1>3. ASSUME NEW st, Due(k, a, st) PROVE Due(k, a, st)'
  <2>1. (job[MQ] # Free => Ahead(k)) => (job'[MQ] # Free => Ahead(k)')
    BY <1>1 DEF Ahead
  <2> QED
    BY <1>1, <1>3, <2>1, DueStays
<1>4. /\ a \in feed'[k] /\ status[a] = "deleted" => a \in feed[k]
      /\ End \in feed'[k] => End \in feed[k]
      /\ status[a] = "visible" /\ a \notin feed'[k] => a \notin feed[k]
  BY <1>1, <1>2
<1> QED
  BY <1>1, <1>3, <1>4 DEF Removal, Addition

\* What article-mq does to the sets, when its calls do not fail.
LEMMA ConsumeStep ==
    ASSUME Shaped, ~mode.mqFails, Work(MQ) \/ Crash(MQ)
    PROVE  LET key == job[MQ].key IN
           /\ UNCHANGED <<mode, status, binlog>> /\ job[MQ] # Free
           /\ key \in SortKey /\ job[MQ].article \in Article /\ job[MQ].op \in RowStatus
           /\ \A k \in SortKey : k # key => feed'[k] = feed[k] /\ (Ahead(k) => Ahead(k)')
           /\ \/ feed'[key] = feed[key] /\ \A k \in SortKey : Ahead(k) => Ahead(k)'
              \/ feed'[key] = {}
              \/ job[MQ].op = "visible" /\ feed'[key] = feed[key] \cup {job[MQ].article}
              \/ job[MQ].op = "deleted" /\ feed'[key] = feed[key] \ {job[MQ].article}
<1>0. MQ \in Worker /\ TypeOK
  BY DEF Worker, Shaped
<1>1. /\ UNCHANGED <<mode, status, index, load>>
      /\ job[MQ] # Free /\ job[MQ].article \in Article /\ job[MQ].key \in SortKey
      /\ job[MQ].op \in RowStatus /\ binlog' = binlog
      /\ \A k \in SortKey : k # job[MQ].key => feed'[k] = feed[k]
      /\ \/ feed'[job[MQ].key] = feed[job[MQ].key]
         \/ /\ job[MQ].op = "visible"
            /\ feed'[job[MQ].key] = feed[job[MQ].key] \cup {job[MQ].article}
         \/ /\ job[MQ].op = "deleted"
            /\ feed'[job[MQ].key] = feed[job[MQ].key] \ {job[MQ].article}
  BY <1>0, WorkStep DEF topic
<1>2. Looks(MQ) \/ PutsIn(MQ) \/ TakesOut(MQ)
  BY <1>0, WorkMoves DEF Fails, Failing
<1>3. ASSUME NEW t, Onward(MQ, t), Becomes(MQ, t)
      PROVE  \A k \in SortKey : k # job[MQ].key /\ Ahead(k) => Ahead(k)'
  <2>1. t \in {Free} \cup Job
    BY <1>0, <1>1, <1>3, OnwardTyped
  <2>2. job'[MQ] = t
    BY <1>0, <1>3, <2>1, BecomesTyped
  <2>3. job[MQ].key = "publish_time" => t.key = "like_num" /\ t.step # "index"
    BY <1>3 DEF Onward, FirstStep
  <2> QED
    BY <2>2, <2>3 DEF Ahead, SortKey
<1>4. CASE PutsIn(MQ)
  <2>1. job[MQ].op = "visible"
    BY <1>0, <1>1, <1>4 DEF PutsIn, Shaped, JobShaped, RowStatus
  <2>2. feed'[job[MQ].key] = feed[job[MQ].key] \cup {job[MQ].article}
    BY <1>0, <1>1, <1>4 DEF PutsIn, Put, TypeOK
  <2>3. \A k \in SortKey : k # job[MQ].key /\ Ahead(k) => Ahead(k)'
    BY <1>3, <1>4 DEF PutsIn
  <2> QED
    BY <1>1, <2>1, <2>2, <2>3
<1>5. CASE TakesOut(MQ)
  <2>1. job[MQ].op = "deleted"
    BY <1>0, <1>1, <1>5 DEF TakesOut, Shaped, JobShaped, RowStatus
  <2>2. feed'[job[MQ].key] = feed[job[MQ].key] \ {job[MQ].article}
    BY <1>0, <1>1, <1>5 DEF TakesOut, Put, TypeOK
  <2>3. \A k \in SortKey : k # job[MQ].key /\ Ahead(k) => Ahead(k)'
    BY <1>3, <1>5 DEF TakesOut
  <2> QED
    BY <1>1, <2>1, <2>2, <2>3
<1>6. CASE Looks(MQ)
  <2> DEFINE u == [op |-> job[MQ].op, article |-> job[MQ].article, key |-> job[MQ].key,
                   step |-> "zadd"]
  <2>1. UNCHANGED feed /\ (Becomes(MQ, u) \/
          (feed[job[MQ].key] = {} /\ \E t : Onward(MQ, t) /\ Becomes(MQ, t)))
    BY <1>6 DEF Looks, Failing
  <2>2. u \in Job /\ u.key = job[MQ].key /\ u.step = "zadd"
    BY <1>1 DEF Job, RowStatus
  <2> HIDE DEF u
  <2>3. CASE Becomes(MQ, u)
    <3>1. job'[MQ] = u
      BY <1>0, <2>2, <2>3, BecomesTyped
    <3>2. \A k \in SortKey : Ahead(k) => Ahead(k)'
      BY <2>2, <3>1 DEF Ahead
    <3>3. feed'[job[MQ].key] = feed[job[MQ].key]
      BY <2>1
    <3> QED
      BY <1>1, <3>2, <3>3
  <2>4. CASE feed[job[MQ].key] = {} /\ \E t : Onward(MQ, t) /\ Becomes(MQ, t)
    <3>1. \A k \in SortKey : k # job[MQ].key /\ Ahead(k) => Ahead(k)'
      BY <1>3, <2>4
    <3>2. feed'[job[MQ].key] = {}
      BY <2>1, <2>4
    <3> QED
      BY <1>1, <3>1, <3>2
  <2> QED
    BY <2>1, <2>3, <2>4
<1> QED
  BY <1>2, <1>4, <1>5, <1>6

\* article-mq does with a set what its message says, unless the set is not there, and
\* a message that is out of date has a later one behind it.
LEMMA ConsumerCompensated ==
    ASSUME Shaped, RowsBehind, Superseded, ~mode.mqFails, Work(MQ) \/ Crash(MQ),
           NEW k \in SortKey, NEW a \in Article, Removal(k, a), Addition(k, a)
    PROVE  Removal(k, a)' /\ Addition(k, a)'
<1>0. Len(binlog) \in Nat /\ MQ \in Worker
  BY MessagesTyped DEF Worker
<1>1. /\ UNCHANGED <<mode, status, binlog>> /\ job[MQ] # Free
      /\ job[MQ].key \in SortKey /\ job[MQ].article \in Article /\ job[MQ].op \in RowStatus
      /\ \A j \in SortKey : j # job[MQ].key => feed'[j] = feed[j] /\ (Ahead(j) => Ahead(j)')
      /\ \/ /\ feed'[job[MQ].key] = feed[job[MQ].key]
            /\ \A j \in SortKey : Ahead(j) => Ahead(j)'
         \/ feed'[job[MQ].key] = {}
         \/ /\ job[MQ].op = "visible"
            /\ feed'[job[MQ].key] = feed[job[MQ].key] \cup {job[MQ].article}
         \/ /\ job[MQ].op = "deleted"
            /\ feed'[job[MQ].key] = feed[job[MQ].key] \ {job[MQ].article}
  BY ConsumeStep
<1>2. ASSUME feed'[k] = feed[k], Ahead(k) => Ahead(k)'
      PROVE  Removal(k, a)' /\ Addition(k, a)'
  <2>1. ASSUME NEW st, Due(k, a, st) PROVE Due(k, a, st)'
    BY <1>1, <1>2, <2>1, DueStays
  <2> QED
    BY <1>1, <1>2, <2>1 DEF Removal, Addition
<1>3. CASE feed'[k] = {}
  BY <1>3 DEF Removal, Addition
<1>4. \A st : Due(k, a, st) /\ (a # job[MQ].article \/ st # job[MQ].op) => Due(k, a, st)'
  <2> SUFFICES ASSUME NEW st, Due(k, a, st), a # job[MQ].article \/ st # job[MQ].op
               PROVE  Due(k, a, st)'
    OBVIOUS
  <2>1. Behind(a, st)
    BY <1>1, DueOrBehind
  <2> QED
    BY <1>0, <1>1, <2>1, BehindIsDueNext
<1>5. CASE k = job[MQ].key /\ job[MQ].op = "visible"
           /\ feed'[job[MQ].key] = feed[job[MQ].key] \cup {job[MQ].article}
  <2>1. Addition(k, a)'
    BY <1>1, <1>4, <1>5 DEF Addition
  <2>2. CASE a # job[MQ].article
    BY <1>1, <1>4, <1>5, <2>1, <2>2 DEF Removal
  <2>3. CASE a = job[MQ].article /\ status[a] = "deleted"
    <3>1. binlog # <<>> /\ binlog[1] = [article |-> a, status |-> "visible"]
      BY <1>1, <1>5, <2>3 DEF Shaped, AtHead
    <3>2. 1 \in 1 .. Len(binlog) /\ 1 + 1 = 2
      BY <1>0, <3>1 DEF Shaped, TypeOK
    <3>3. \E m \in 2 .. Len(binlog) : binlog[m] = [article |-> a, status |-> "deleted"]
      BY <2>3, <3>1, <3>2, BinlogSuperseded
    <3>4. Due(k, a, "deleted")'
      BY <1>0, <1>1, <3>3, BehindIsDueNext DEF Behind
    <3> QED
      BY <2>1, <3>4 DEF Removal
  <2>4. CASE status[a] # "deleted"
    BY <1>1, <2>1, <2>4 DEF Removal
  <2> QED
    BY <2>2, <2>3, <2>4
<1>6. CASE k = job[MQ].key /\ job[MQ].op = "deleted"
           /\ feed'[job[MQ].key] = feed[job[MQ].key] \ {job[MQ].article}
  <2>1. status[job[MQ].article] = "deleted"
    BY <1>0, <1>1, <1>6 DEF RowsBehind, Past
  <2>2. Removal(k, a)'
    BY <1>1, <1>4, <1>6 DEF Removal
  <2>3. Addition(k, a)'
    BY <1>1, <1>4, <1>6, <2>1 DEF Addition
  <2> QED
    BY <2>2, <2>3
<1>7. CASE k # job[MQ].key
  BY <1>1, <1>2, <1>7
<1>8. CASE k = job[MQ].key
  <2> USE <1>8
  <2>1. \/ feed'[k] = feed[k] /\ (Ahead(k) => Ahead(k)')
        \/ feed'[k] = {}
        \/ /\ job[MQ].op = "visible"
           /\ feed'[job[MQ].key] = feed[job[MQ].key] \cup {job[MQ].article}
        \/ /\ job[MQ].op = "deleted"
           /\ feed'[job[MQ].key] = feed[job[MQ].key] \ {job[MQ].article}
    BY <1>1
  <2> QED
    BY <1>2, <1>3, <1>5, <1>6, <2>1
<1> QED
  BY <1>7, <1>8

\* Loads add what is visible, and close a set that lacks nothing.
LEMMA LoadCompensated ==
    ASSUME Shaped, LoadsAgree, ~mode.overlap, LoadStep,
           NEW k \in SortKey, NEW a \in Article, Removal(k, a), Addition(k, a)
    PROVE  Removal(k, a)' /\ Addition(k, a)'
<1>1. /\ UNCHANGED <<mode, status, topic, index, job>>
      /\ UNCHANGED feed \/ \E l \in Loader : Adds(l)
  BY LoadMoves DEF Shaped
<1>2. \A st : Due(k, a, st) => Due(k, a, st)'
  BY <1>1 DEF Due, Ahead, topic
<1>3. CASE UNCHANGED feed
  BY <1>1, <1>2, <1>3 DEF Removal, Addition
<1>4. ASSUME NEW l \in Loader, Adds(l) PROVE Removal(k, a)' /\ Addition(k, a)'
  <2>0. load[l].key \in SortKey /\ load[l].todo \in SUBSET (Article \cup {End})
        /\ feed[load[l].key] \in SUBSET (Article \cup {End}) /\ TypeOK
    BY DEF Shaped, TypeOK
  <2>1. PICK m \in load[l].todo :
          /\ m = End => load[l].todo = {End}
          /\ Put(load[l].key, feed[load[l].key] \cup {m})
    BY <1>4 DEF Adds
  <2>2. feed[load[l].key] \cup {m} \in SUBSET (Article \cup {End})
    BY <2>0
  <2>3. /\ feed'[load[l].key] = feed[load[l].key] \cup {m}
        /\ \A j \in SortKey : j # load[l].key => feed'[j] = feed[j]
    BY <2>0, <2>1, <2>2, PutMoves
  <2>4. m # End => status[m] = "visible"
    BY <1>4, <2>1 DEF Adds, LoadsAgree, Visible
  <2>5. ~mode.deep /\ m = End /\ status[a] = "visible" => a \in feed[load[l].key]
    <3> SUFFICES ASSUME ~mode.deep, m = End, status[a] = "visible"
                 PROVE  a \in feed[load[l].key]
      OBVIOUS
    <3>1. load[l].todo = {End} /\ a \in Visible
      BY <2>1 DEF Visible
    <3>2. Visible \subseteq feed[load[l].key] \cup load[l].todo
      BY <1>4, <3>1 DEF Adds, LoadsAgree
    <3> QED
      BY <3>1, <3>2
  <2>6. Removal(k, a)'
    BY <1>1, <1>2, <2>3, <2>4 DEF Removal
  <2>7. Addition(k, a)'
    BY <1>1, <1>2, <2>3, <2>4, <2>5 DEF Addition
  <2> QED
    BY <2>6, <2>7
<1> QED
  BY <1>1, <1>3, <1>4

LEMMA CompensatedStep ==
    Shaped /\ RowsBehind /\ Superseded /\ WritersAgree /\ LoadsAgree /\ Compensated
      /\ [Next]_vars => Compensated'
<1> SUFFICES ASSUME Shaped, RowsBehind, Superseded, WritersAgree, LoadsAgree, Compensated,
                    [Next]_vars, Ordered'
             PROVE  \A k \in SortKey, a \in Article : Removal(k, a)' /\ Addition(k, a)'
  BY DEF Compensated, Removal, Addition, Due
<1>0. UNCHANGED mode
  <2>1. ASSUME NEW w \in Writer, NEW a \in Article, Publish(w, a) \/ ArticleDelete(w, a)
        PROVE  UNCHANGED mode
    BY <2>1 DEF Publish, ArticleDelete
  <2>2. ASSUME NEW p \in Worker, Work(p) \/ Crash(p) PROVE UNCHANGED mode
    BY <2>2 DEF Work, Exists, Zadd, Zrem, Crash
  <2>3. LoadStep => UNCHANGED mode
    BY LoadMoves DEF Shaped
  <2> QED
    BY <2>1, <2>2, <2>3, StepKinds DEF Take, Index, CommitOffset, Restart, ExpireSet, vars
<1>1. Ordered /\ mode.sequential /\ ~mode.mqFails /\ ~mode.overlap
  BY <1>0 DEF Ordered
<1> SUFFICES ASSUME NEW k \in SortKey, NEW a \in Article
             PROVE  Removal(k, a)' /\ Addition(k, a)'
  OBVIOUS
<1>2. Removal(k, a) /\ Addition(k, a)
  BY <1>1 DEF Compensated, Removal, Addition
<1>3. ASSUME UNCHANGED <<status, feed>>, \A st : Due(k, a, st) => Due(k, a, st)'
      PROVE  Removal(k, a)' /\ Addition(k, a)'
  BY <1>0, <1>2, <1>3 DEF Removal, Addition
<1>4. ASSUME NEW w \in Writer, NEW b \in Article, Publish(w, b) \/ ArticleDelete(w, b)
      PROVE  Removal(k, a)' /\ Addition(k, a)'
  BY <1>2, <1>4, RowStep, RowCompensated
<1>5. ASSUME NEW p \in Worker, Work(p) \/ Crash(p)
      PROVE  Removal(k, a)' /\ Addition(k, a)'
  <2>1. CASE p = MQ
    BY <1>1, <1>2, <1>5, <2>1, ConsumerCompensated
  <2>2. CASE p # MQ
    <3>1. p \in Writer
      BY <2>2 DEF Worker
    <3> QED
      BY <1>1, <1>2, <1>5, <3>1, WriterCompensated
  <2> QED
    BY <2>1, <2>2
<1>6. CASE Take
  <2>1. /\ job[MQ] = Free /\ binlog' = binlog /\ UNCHANGED <<status, feed>>
        /\ job'[MQ].key = "publish_time" /\ job'[MQ].step # "index"
    BY <1>6, TakeStep DEF FirstStep, topic
  <2>2. \A st : Due(k, a, st) => Due(k, a, st)'
    BY <2>1, DueStays DEF Ahead
  <2> QED
    BY <1>3, <2>1, <2>2
<1>7. CASE Index
  <2>1. /\ job[MQ] # Free /\ job[MQ].step = "index" /\ job'[MQ] = Free
        /\ UNCHANGED <<mode, status, feed, load>> /\ Leave
    BY <1>1, <1>7, IndexStep
  <2>2. ASSUME NEW st, Due(k, a, st) PROVE Due(k, a, st)'
    <3>1. PICK n \in 2 .. Len(binlog) : binlog[n] = [article |-> a, status |-> st]
      BY <2>1, <2>2, DueOrBehind DEF Ahead, Behind
    <3>2. n - 1 \in 1 .. Len(binlog') /\ binlog'[n - 1] = binlog[n]
      BY <2>1, TailShifts
    <3> QED
      BY <2>1, <3>1, <3>2 DEF Due
  <2> QED
    BY <1>3, <2>1, <2>2
<1>8. CASE LoadStep
  BY <1>1, <1>2, <1>8, LoadCompensated
<1>9. ASSUME NEW j \in SortKey, ExpireSet(j) PROVE Removal(k, a)' /\ Addition(k, a)'
  <2>1. /\ UNCHANGED <<mode, status, binlog, job>>
        /\ feed'[k] = IF k = j THEN {} ELSE feed[k]
    BY <1>9 DEF ExpireSet, Put, Shaped, TypeOK, topic
  <2>2. \A st : Due(k, a, st) => Due(k, a, st)'
    BY <2>1 DEF Due, Ahead
  <2> QED
    BY <1>2, <2>1, <2>2 DEF Removal, Addition
<1>10. CASE UNCHANGED vars
  <2>1. \A st : Due(k, a, st) => Due(k, a, st)'
    BY <1>10 DEF Due, Ahead, vars, topic
  <2> QED
    BY <1>3, <1>10, <2>1 DEF vars
<1>11. CASE CommitOffset
  <2>1. \A st : Due(k, a, st) => Due(k, a, st)'
    BY <1>11 DEF CommitOffset, Due, Ahead
  <2> QED
    BY <1>3, <1>11, <2>1 DEF CommitOffset
<1>12. CASE Restart
  <2>1. UNCHANGED <<status, feed>> /\ job'[MQ] = Free /\ binlog' = Log
    BY <1>12, RestartStep
  <2>2. ASSUME NEW st, Due(k, a, st) PROVE Due(k, a, st)'
    <3>1. PICK n \in 1 .. Len(binlog) : binlog[n] = [article |-> a, status |-> st]
      BY <2>2 DEF Due
    <3>2. Len(handled) + n \in 1 .. Len(binlog') /\ binlog'[Len(handled) + n] = binlog[n]
      BY <2>1, LogTyped
    <3> QED
      BY <2>1, <3>1, <3>2 DEF Due
  <2> QED
    BY <1>3, <2>1, <2>2
<1> QED
  BY <1>4, <1>5, <1>6, <1>7, <1>8, <1>9, <1>10, <1>11, <1>12, StepKinds

LEMMA CompensatedInit == Init => Compensated
BY DEF Init, Compensated, SortKey

Sound ==
    /\ Shaped /\ RowsBehind /\ ListedHasRow
    /\ Superseded /\ IndexAgrees
    /\ WritersAgree /\ LoadsAgree /\ Compensated

LEMMA SoundHolds == Spec => []Sound
<1>1. Init => Sound
  BY ShapedInit, BehindInit, LoggedInit, WritersInit, CompensatedInit DEF Sound
<1>2. Sound /\ [Next]_vars => Sound'
  BY ShapedStep, BehindStep, LoggedStep, WritersStep, LoadersStep, CompensatedStep DEF Sound
<1> QED
  BY <1>1, <1>2, PTL DEF Spec

\* When all is quiet nothing is due.
LEMMA NothingDue ==
    ASSUME Settled, NEW k, NEW a, NEW st PROVE ~Due(k, a, st)
<1>1. Len(binlog) = 0
  BY DEF Settled
<1> QED
  BY <1>1 DEF Due

\* Whatever fails, every listed article has a row; and when all is quiet article-mq has
\* made up for whatever article-rpc lost between a row and its sets, and for its own deaths
\* and repetitions: no deleted article is listed.  For any articles, goroutines and loads.
THEOREM FeedStaysTruthful == Spec => []FeedTruthful
<1>1. Sound => FeedTruthful
  <2> SUFFICES ASSUME Sound PROVE DeletedLeaves
    BY DEF Sound, FeedTruthful
  <2> SUFFICES ASSUME Ordered, Settled, NEW k \in SortKey, NEW a \in feed[k], a # End
               PROVE  a \in Visible
    BY DEF DeletedLeaves
  <2>1. a \in Article /\ status[a] \in Status /\ status[a] # "absent"
    BY DEF Sound, Shaped, TypeOK, ListedHasRow
  <2>2. status[a] = "deleted" => Due(k, a, "deleted")
    BY <2>1 DEF Sound, Compensated
  <2>3. status[a] # "deleted"
    BY <2>2, NothingDue
  <2> QED
    BY <2>1, <2>3 DEF Status, RowStatus, Visible
<1> QED
  BY <1>1, SoundHolds, PTL

\* A set that says it is complete is, when all is quiet and no reader filled it from a
\* later page, whatever article-rpc lost and however often article-mq died: for any
\* articles, goroutines and loads.
THEOREM ClosedMeansComplete == Spec => []ClosedIsComplete
<1>1. Sound => ClosedIsComplete
  <2> SUFFICES ASSUME Sound, Ordered, Settled, ~mode.deep, NEW k \in SortKey,
                      End \in feed[k], NEW a \in Visible
               PROVE  a \in feed[k]
    BY DEF ClosedIsComplete
  <2>1. a \in Article /\ status[a] = "visible"
    BY DEF Visible
  <2>2. a \notin feed[k] => Due(k, a, "visible")
    BY <2>1 DEF Sound, Compensated
  <2> QED
    BY <2>2, NothingDue
<1> QED
  BY <1>1, SoundHolds, PTL
================================================================================

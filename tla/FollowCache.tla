------------------------------ MODULE FollowCache ------------------------------
(* follow-rpc, the Redis lists beside FollowGraph: each user has a sorted set  *)
(* of the users they follow and one of their fans.  FollowList and FansList    *)
(* fill a set from MySQL in the background when a page is not found in it;     *)
(* Follow and UnFollow add to and remove from the two sets after their         *)
(* transaction; sets expire, except those nobody gave a TTL.                   *)
EXTENDS FollowGraph, FiniteSetsExt

CONSTANTS
    Loader,      \* the FollowList and FansList calls that find no page
    Loads,       \* the sets they read
    End,         \* the member "-1" (score 0) that closes a complete set
    CacheMax     \* CacheMaxFollowCount and CacheMaxFansCount, 1000 in the code

Key == {"follow", "fans"} \X User

ASSUME LoadAssumption == Loads \subseteq Key
ASSUME EndAssumption == End \notin User
ASSUME CacheMaxAssumption == CacheMax \in Nat \ {0}

VARIABLES
    overlap,  \* of the behaviour, fixed: lists are loaded while calls are under way
    at,     \* the call's place in the cache updates that follow its commit
    zset,   \* the members of each set; a set without members has no key
    ttl,    \* whether the key has a TTL
    load    \* the state of each loader

cache == <<zset, ttl>>
cacheVars == <<overlap, at, zset, ttl, load>>
allVars == <<vars, cacheVars>>

\* The set of a list a call touches, and the member it adds or removes.
KeyOf(c, list) == IF list = "follow" THEN <<"follow", From(c)>> ELSE <<"fans", To(c)>>

\* Bug: the row's id is stored instead of the user's.
MemberOf_RowId(c, list) == PairOf(c)
MemberOf(c, list) == IF list = "follow" THEN To(c) ELSE From(c)

\* What MySQL holds for a key (FindByUserId, FindByFollowedUserId).
Rows(k) == IF k[1] = "follow" THEN Followed(k[2]) ELSE Fans(k[2])

Unused == [key |-> <<"none", NoUser>>, step |-> "idle", todo |-> {}]
Done == [Unused EXCEPT !.step = "done"]

Caching(c) == pc[c] = "committed" /\ at[c].step \in {"check", "add", "trim"}
Loading(l) == load[l].step \in {"read", "fill", "expire"}

InitCache ==
    /\ Init
    /\ overlap \in BOOLEAN
    /\ at = [c \in Call |-> [list |-> "follow", step |-> "check"]]
    /\ zset = [k \in Key |-> {}]
    /\ ttl = [k \in Key |-> FALSE]
    /\ load = [l \in Loader |-> Unused]

Put(k, members) == zset' = [zset EXCEPT ![k] = members]

--------------------------------------------------------------------------------
(* Follow and UnFollow after the commit.                                       *)
At(c, list, step) == at' = [at EXCEPT ![c] = [list |-> list, step |-> step]]

Advance(c, list) == IF list = "follow" THEN At(c, "fans", "check") ELSE At(c, "fans", "ok")

Turn(c, list, step) ==
    /\ pc[c] = "committed"
    /\ at[c] = [list |-> list, step |-> step]

\* EXISTS: a set that is not cached is left alone.
CheckKey(c, list) ==
    /\ Turn(c, list, "check") /\ call[c].op = "follow"
    /\ IF zset[KeyOf(c, list)] # {} THEN At(c, list, "add") ELSE Advance(c, list)
    /\ UNCHANGED <<vars, overlap, cache, load>>

\* ZADD: creates a key without a TTL when the set has expired since.
AddMember(c, list) ==
    LET k == KeyOf(c, list) IN
    /\ Turn(c, list, "add")
    /\ Put(k, zset[k] \cup {MemberOf(c, list)})
    /\ At(c, list, "trim")
    /\ UNCHANGED <<vars, overlap, ttl, load>>

\* Bug: the trim drops the newest members and keeps the closing one.
Kept_Oldest(members) ==
    IF Cardinality(members) <= CacheMax THEN {members}
    ELSE IF End \in members
         THEN {m \cup {End} : m \in kSubset(CacheMax - 1, members \ {End})}
         ELSE kSubset(CacheMax, members)

\* ZREMRANGEBYRANK 0 -(CacheMax + 1) keeps the CacheMax newest members: the
\* closing member has score 0 and goes first; scores are seconds, so any of the
\* others may be among the oldest.
Kept(members) ==
    IF Cardinality(members) <= CacheMax THEN {members}
    ELSE kSubset(CacheMax, members \ {End})

\* The error of the trim is logged and ignored.
Trim(c, list) ==
    LET k == KeyOf(c, list) IN
    /\ Turn(c, list, "trim")
    /\ \/ \E members \in Kept(zset[k]) : Put(k, members)
       \/ mode.faulty /\ UNCHANGED zset
    /\ Advance(c, list)
    /\ UNCHANGED <<vars, overlap, ttl, load>>

\* Bug: an unfollow leaves the other user's list of fans alone.
RemoveMember_OwnList(c, list) ==
    LET k == KeyOf(c, "follow") IN
    /\ Turn(c, list, "check") /\ call[c].op = "unfollow"
    /\ Put(k, zset[k] \ {To(c)})
    /\ ttl' = [ttl EXCEPT ![k] = @ /\ zset'[k] # {}]
    /\ Advance(c, list)
    /\ UNCHANGED <<vars, overlap, load>>

\* ZREM; a set that loses its last member is gone.
RemoveMember(c, list) ==
    LET k == KeyOf(c, list) IN
    /\ Turn(c, list, "check") /\ call[c].op = "unfollow"
    /\ Put(k, zset[k] \ {MemberOf(c, list)})
    /\ ttl' = [ttl EXCEPT ![k] = @ /\ zset'[k] # {}]
    /\ Advance(c, list)
    /\ UNCHANGED <<vars, overlap, load>>

\* A Redis error ends the call (the row stays committed); so does a crash.
LoseCall(c) ==
    /\ mode.faulty /\ Caching(c)
    /\ \E step \in {"err", "crashed"} : At(c, at[c].list, step)
    /\ UNCHANGED <<vars, overlap, cache, load>>

UpdateCache(c) ==
    \E list \in {"follow", "fans"} :
        \/ CheckKey(c, list) \/ AddMember(c, list)
        \/ Trim(c, list) \/ RemoveMember(c, list)

--------------------------------------------------------------------------------
(* FollowList and FansList.                                                    *)
Load(l, step, todo) ==
    load' = [load EXCEPT ![l] = [key |-> @.key, step |-> step, todo |-> todo]]

Over(l) == load' = [load EXCEPT ![l] = Done]

\* The calls that may change what a key stands for.
Touching(k) == {c \in Call : /\ pc[c] \in Running \/ Caching(c)
                             /\ \E list \in {"follow", "fans"} : KeyOf(c, list) = k}

\* A page is found: EXPIRE renews the TTL (of a key that had none, too).
Hit(k) ==
    /\ zset[k] # {}
    /\ ttl' = [ttl EXCEPT ![k] = TRUE]
    /\ UNCHANGED <<vars, overlap, at, zset, load>>

\* No page is found: there is no set, or the cursor is past the end of one that
\* is not closed.  Redis errors look the same.
Miss(l, k) ==
    /\ load[l].step = "idle"
    /\ mode.faulty \/ End \notin zset[k]
    /\ ~overlap => Touching(k) = {}
    /\ load' = [load EXCEPT ![l] = [key |-> k, step |-> "read", todo |-> {}]]
    /\ ttl' = [ttl EXCEPT ![k] = zset[k] # {}] \/ (mode.faulty /\ UNCHANGED ttl)
    /\ UNCHANGED <<vars, overlap, at, zset>>

\* The newest CacheMax rows, closed when there are fewer; nothing when none.
Page(rows) ==
    IF rows = {} THEN {{}}
    ELSE IF Cardinality(rows) < CacheMax THEN {rows \cup {End}}
    ELSE kSubset(CacheMax, rows)

ReadRows(l) ==
    /\ load[l].step = "read"
    /\ \/ \E page \in Page(Rows(load[l].key)) :
            IF page = {} THEN Over(l) ELSE Load(l, "fill", page)
       \/ mode.faulty /\ Over(l)
    /\ UNCHANGED <<vars, overlap, at, cache>>

\* In the background, one ZADD per row and the closing member last.  A failed
\* ZADD or a crash leaves what was added so far, without a TTL if it was new.
Fill(l) ==
    LET k == load[l].key IN
    /\ load[l].step = "fill"
    /\ \/ \E m \in load[l].todo :
            /\ m = End => load[l].todo = {End}
            /\ Put(k, zset[k] \cup {m})
            /\ Load(l, IF load[l].todo = {m} THEN "expire" ELSE "fill", load[l].todo \ {m})
       \/ mode.faulty /\ Over(l) /\ UNCHANGED zset
    /\ UNCHANGED <<vars, overlap, at, ttl>>

\* EXPIRE, which has no effect on a key that is gone.
SetExpiry(l) ==
    LET k == load[l].key IN
    /\ load[l].step = "expire"
    /\ \/ ttl' = [ttl EXCEPT ![k] = zset[k] # {}]
       \/ mode.faulty /\ UNCHANGED ttl
    /\ Over(l)
    /\ UNCHANGED <<vars, overlap, at, zset>>

\* A set reaches its TTL (two days).  A list call that was not misled by a Redis
\* error has renewed it, and is over long before.
ExpireSet(k) ==
    /\ ttl[k]
    /\ mode.faulty \/ \A l \in Loader : load[l].key = k => ~Loading(l)
    /\ Put(k, {})
    /\ ttl' = [ttl EXCEPT ![k] = FALSE]
    /\ UNCHANGED <<vars, overlap, at, load>>

--------------------------------------------------------------------------------
\* A call begins; a user who calls one at a time waits for the cache updates too.
BeginCall(c) ==
    /\ Begin(c)
    /\ mode.sequential => \A d \in Call : From(d) = From(c) => ~Caching(d)
    /\ ~overlap => ~\E l \in Loader : Loading(l)
    /\ UNCHANGED cacheVars

ServeCall(c) == (Serve(c) \/ Crash(c)) /\ UNCHANGED cacheVars

ServeList(l) == (\E k \in Loads : Miss(l, k)) \/ ReadRows(l) \/ Fill(l) \/ SetExpiry(l)

NextCache ==
    \/ \E c \in Call : BeginCall(c) \/ ServeCall(c) \/ UpdateCache(c) \/ LoseCall(c)
    \/ \E l \in Loader : ServeList(l)
    \/ \E k \in Loads : Hit(k)
    \/ \E k \in Key : ExpireSet(k)

SpecCache == InitCache /\ [][NextCache]_allVars

--------------------------------------------------------------------------------
Steps == {"check", "add", "trim", "ok", "err", "crashed"}

TypeOKCache ==
    /\ TypeOK
    /\ overlap \in BOOLEAN
    /\ at \in [Call -> [list : {"follow", "fans"}, step : Steps]]
    /\ zset \in [Key -> SUBSET (User \cup {End})]
    /\ ttl \in [Key -> BOOLEAN]
    /\ \A k \in Key : ttl[k] => zset[k] # {}
    /\ load \in [Loader -> {Unused, Done} \cup
                            [key : Loads, todo : SUBSET (User \cup {End}),
                             step : {"read", "fill", "expire"}]]

\* Every listed user has a row in MySQL.
ListedHasRow ==
    \A k \in Key : \A v \in zset[k] \ {End} :
        LET p == IF k[1] = "follow" THEN <<k[2], v>> ELSE <<v, k[2]>> IN
        status[p] # "none"

\* A set nobody is at work on lists nobody who was unfollowed and, when it is
\* closed, everybody who is followed.
SettledListsAgree ==
    mode.sequential /\ ~mode.faulty /\ ~overlap =>
        \A k \in Key :
            Touching(k) = {} /\ (\A l \in Loader : load[l].key = k => ~Loading(l)) =>
                /\ zset[k] \ {End} \subseteq Rows(k)
                /\ End \in zset[k] => Rows(k) \subseteq zset[k]

\* What the two sets promise their readers.  Whatever fails, dies or overlaps, a page found
\* in Redis never comes back shorter, or empty, from FindByFollowedUserIds (which does not
\* ask whether the row still says "follow").  For users who call one at a time, when no list
\* is loaded meanwhile and nothing fails, a set at rest is right, and complete when it says
\* so, though it may expire at any time.
ListsTruthful == ListedHasRow /\ SettledListsAgree
================================================================================

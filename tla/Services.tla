------------------------------- MODULE Services --------------------------------
(* How the gateways (applet, article-api) and the RPC services are wired: the  *)
(* routes, their handlers and the RPCs each one makes; and, per service, what  *)
(* the call passes on its way: client wrapper, stub (method to path), service  *)
(* description (path to server method), server (method to logic).  Each table  *)
(* is a function, so that a call is their composition.                         *)
EXTENDS XCode, Functions

\* user-rpc.
defaultUser == [Register |-> "Register", FindById |-> "FindById",
                FindByMobile |-> "FindByMobile", SendSms |-> "SendSms"]
userClient == [Register |-> "/service.User/Register", FindById |-> "/service.User/FindById",
               FindByMobile |-> "/service.User/FindByMobile", SendSms |-> "/service.User/SendSms"]
User_ServiceDesc ==
    {<<"/service.User/Register", "Register">>, <<"/service.User/FindById", "FindById">>,
     <<"/service.User/FindByMobile", "FindByMobile">>, <<"/service.User/SendSms", "SendSms">>}
UserServer == [Register |-> "RegisterLogic", FindById |-> "FindByIdLogic",
               FindByMobile |-> "FindByMobileLogic", SendSms |-> "SendSmsLogic"]

\* like-rpc.
defaultLike == [Thumbup |-> "Thumbup", IsThumbup |-> "IsThumbup"]
likeClient == [Thumbup |-> "/service.Like/Thumbup", IsThumbup |-> "/service.Like/IsThumbup"]
Like_ServiceDesc ==
    {<<"/service.Like/Thumbup", "Thumbup">>, <<"/service.Like/IsThumbup", "IsThumbup">>}
LikeServer == [Thumbup |-> "ThumbupLogic", IsThumbup |-> "IsThumbupLogic"]

\* follow-rpc.
defaultFollow == [Follow |-> "Follow", UnFollow |-> "UnFollow",
                  FollowList |-> "FollowList", FansList |-> "FansList"]
\* Bug: the stub of UnFollow was copied from Follow.
followClient_UnFollowIsFollow ==
    [Follow |-> "/service.Follow/Follow", UnFollow |-> "/service.Follow/Follow",
     FollowList |-> "/service.Follow/FollowList", FansList |-> "/service.Follow/FansList"]
followClient == [Follow |-> "/service.Follow/Follow", UnFollow |-> "/service.Follow/UnFollow",
                 FollowList |-> "/service.Follow/FollowList", FansList |-> "/service.Follow/FansList"]
Follow_ServiceDesc ==
    {<<"/service.Follow/Follow", "Follow">>, <<"/service.Follow/UnFollow", "UnFollow">>,
     <<"/service.Follow/FollowList", "FollowList">>, <<"/service.Follow/FansList", "FansList">>}
FollowServer == [Follow |-> "FollowLogic", UnFollow |-> "UnFollowLogic",
                 FollowList |-> "FollowListLogic", FansList |-> "FansListLogic"]

\* article-rpc.
defaultArticle == [Publish |-> "Publish", Articles |-> "Articles",
                   ArticleDelete |-> "ArticleDelete", ArticleDetail |-> "ArticleDetail"]
articleClient == [Publish |-> "/pb.Article/Publish", Articles |-> "/pb.Article/Articles",
                  ArticleDelete |-> "/pb.Article/ArticleDelete",
                  ArticleDetail |-> "/pb.Article/ArticleDetail"]
Article_ServiceDesc ==
    {<<"/pb.Article/Publish", "Publish">>, <<"/pb.Article/Articles", "Articles">>,
     <<"/pb.Article/ArticleDelete", "ArticleDelete">>,
     <<"/pb.Article/ArticleDetail", "ArticleDetail">>}
ArticleServer == [Publish |-> "PublishLogic", Articles |-> "ArticlesLogic",
                  ArticleDelete |-> "ArticleDeleteLogic", ArticleDetail |-> "ArticleDetailLogic"]

\* The programs.  Only user-rpc installs the interceptor that keeps error codes.
UserMain == [name |-> "user", wrapper |-> defaultUser, stub |-> userClient,
             desc |-> User_ServiceDesc, server |-> UserServer, serverInterceptor |-> TRUE]
LikeMain == [name |-> "like", wrapper |-> defaultLike, stub |-> likeClient,
             desc |-> Like_ServiceDesc, server |-> LikeServer, serverInterceptor |-> FALSE]
FollowMain == [name |-> "follow", wrapper |-> defaultFollow, stub |-> followClient,
               desc |-> Follow_ServiceDesc, server |-> FollowServer, serverInterceptor |-> FALSE]
ArticleMain == [name |-> "article", wrapper |-> defaultArticle, stub |-> articleClient,
                desc |-> Article_ServiceDesc, server |-> ArticleServer, serverInterceptor |-> FALSE]
Service == {UserMain, LikeMain, FollowMain, ArticleMain}

ServiceOf(method) == CHOOSE s \in Service : method \in DOMAIN s.wrapper
\* The logic that a call of a client's method ends up in.
LogicOf(method) ==
    LET s == ServiceOf(method)
        path == s.stub[s.wrapper[method]]
        served == CHOOSE m \in DOMAIN s.server : <<path, m>> \in s.desc
    IN  s.server[served]

--------------------------------------------------------------------------------
\* The id a field has when nobody set it.
Nobody == 0

\* The business errors a service answers with before it has changed anything.
RegisterNameEmpty == New(20001, Word("RegisterNameEmpty"))
FollowedUserIdEmpty == New(40002, Word("FollowedUserIdEmpty"))
CannotFollowSelf == New(40003, Word("CannotFollowSelf"))
SortTypeInvalid == New(60001, Word("SortTypeInvalid"))
UserIdInvalid == New(60002, Word("UserIdInvalid"))

\* What each logic may return of itself, by what it is asked: names and sort
\* orders are not modelled, ids are (a missing one is 0).
Results(logic, req) ==
    CASE logic = "RegisterLogic" -> {NoError, RegisterNameEmpty}
      [] logic = "FollowLogic" /\ req.target = Nobody -> {FollowedUserIdEmpty}
      [] logic = "FollowLogic" /\ req.target = req.userId -> {CannotFollowSelf}
      [] logic = "UnFollowLogic" /\ req.target = Nobody -> {FollowedUserIdEmpty}
      [] logic = "ArticlesLogic" /\ req.userId = Nobody -> {SortTypeInvalid, UserIdInvalid}
      [] logic = "ArticlesLogic" -> {NoError, SortTypeInvalid}
      [] OTHER -> {NoError}
Writing == {"RegisterLogic", "ThumbupLogic", "FollowLogic", "UnFollowLogic", "PublishLogic",
            "ArticleDeleteLogic"}

--------------------------------------------------------------------------------
\* The codes of applet's and article-api's own checks.
RegisterMobileEmpty == New(10001, Word("RegisterMobileEmpty"))
VerificationCodeEmpty == New(100002, Word("VerificationCodeEmpty"))
MobileHasRegistered == New(100003, Word("MobileHasRegistered"))
LoginMobileEmpty == New(100003, Word("LoginMobileEmpty"))
RegisterPasswdEmpty == New(100004, Word("RegisterPasswdEmpty"))
GetBucketErr == New(30001, Word("GetBucketErr"))
PutBucketErr == New(30002, Word("PutBucketErr"))
ArtitleTitleEmpty == New(30004, Word("ArtitleTitleEmpty"))
ArticleContentTooFewWords == New(30005, Word("ArticleContentTooFewWords"))
ArticleCoverEmpty == New(30006, Word("ArticleCoverEmpty"))

\* Errors without a code: of Redis, of the verification code, of reading a form.
RedisError == Plain(Word("redis"))
WrongCode == Plain(Word("verification code failed"))
FormError == Plain(Word("http: no such file"))

\* A logic of a gateway is a sequence of stages.  A stage checks (and may end in
\* one of its errors), may end early without an error, and makes one RPC; the
\* last one makes none and ends with success.
NoCall == [method |-> "", userId |-> Nobody, target |-> Nobody]
Rpc(method, userId, target) == [method |-> method, userId |-> userId, target |-> target]
Stage(errors, ends, call) == [errors |-> errors, ends |-> ends, call |-> call]
Ends(errors) == Stage(errors, FALSE, NoCall)
Forward(method, user, target) == <<Stage({}, FALSE, Rpc(method, user, target)), Ends({})>>

\* applet.  "user" is the token's, "target" what the body names.
RegisterLogic(user, target) ==
    <<Stage({RegisterMobileEmpty, RegisterPasswdEmpty, VerificationCodeEmpty,
             RedisError, WrongCode}, FALSE, Rpc("FindByMobile", Nobody, target)),
      Stage({MobileHasRegistered}, FALSE, Rpc("Register", Nobody, target)),
      Ends({})>>
VerificationLogic(user, target) ==
    <<Stage({}, TRUE, Rpc("SendSms", Nobody, target)), Ends({RedisError})>>
LoginLogic(user, target) ==
    <<Stage({LoginMobileEmpty, VerificationCodeEmpty, RedisError, WrongCode}, FALSE,
            Rpc("FindByMobile", Nobody, target)),
      Ends({AccessDenied})>>
UserInfoLogic(user, target) == Forward("FindById", user, Nobody)
ThumbupLogic(user, target) == Forward("Thumbup", user, target)
IsThumbupLogic(user, target) == Forward("IsThumbup", user, target)
FollowLogic(user, target) == Forward("Follow", user, target)
UnFollowLogic(user, target) == Forward("UnFollow", user, target)
FollowListLogic(user, target) == Forward("FollowList", user, Nobody)
FansListLogic(user, target) == Forward("FansList", user, Nobody)

\* article-api.  The bucket is a service outside the repository.
UploadCoverLogic(user, target) == <<Ends({FormError, GetBucketErr, PutBucketErr})>>
PublishLogic(user, target) ==
    <<Stage({ArtitleTitleEmpty, ArticleContentTooFewWords, ArticleCoverEmpty}, FALSE,
            Rpc("Publish", user, target)),
      Ends({})>>
\* The second call asks for the author the first one named (articles go by their
\* author here); there may be no article.
ArticleDetailLogic(user, target) ==
    <<Stage({}, FALSE, Rpc("ArticleDetail", Nobody, target)),
      Stage({}, TRUE, Rpc("FindById", target, Nobody)),
      Ends({})>>
ArticleListLogic(user, target) == Forward("Articles", target, Nobody)

--------------------------------------------------------------------------------
\* Requests of which some field must be there for httpx.Parse to accept them.
AppletRequired == {"Register", "Verification", "Login", "Thumbup", "IsThumbup", "Follow", "UnFollow"}
ArticleRequired == {"Publish", "ArticleDetail", "ArticleList"}

\* What the body of a request is like.
Form == {"malformed", "incomplete", "complete"}
Parses(name) ==
    IF name \in AppletRequired \cup ArticleRequired THEN {"complete"} ELSE {"incomplete", "complete"}
Handler(name) == [logic |-> name, accepts |-> Parses(name)]

RegisterHandler == Handler("Register")
VerificationHandler == Handler("Verification")
LoginHandler == Handler("Login")
ThumbupHandler == Handler("Thumbup")
IsThumbupHandler == Handler("IsThumbup")
FollowHandler == Handler("Follow")
UnFollowHandler == Handler("UnFollow")
FollowListHandler == Handler("FollowList")
FansListHandler == Handler("FansList")
PublishHandler == Handler("Publish")
ArticleDetailHandler == Handler("ArticleDetail")
ArticleListHandler == Handler("ArticleList")
\* These two parse no request.
UserInfoHandler == [logic |-> "UserInfo", accepts |-> Form]
UploadCoverHandler == [logic |-> "UploadCover", accepts |-> Form]

Route(path, handler, jwt) == [path |-> path, handler |-> handler, jwt |-> jwt]
AppletRoutes ==
    {Route("/v1/register", RegisterHandler, FALSE),
     Route("/v1/verification", VerificationHandler, FALSE),
     Route("/v1/login", LoginHandler, FALSE),
     Route("/v1/user/info", UserInfoHandler, TRUE),
     Route("/v1/user/thumbup", ThumbupHandler, TRUE),
     Route("/v1/user/is-thumbup", IsThumbupHandler, TRUE),
     Route("/v1/user/follow", FollowHandler, TRUE),
     Route("/v1/user/unfollow", UnFollowHandler, TRUE),
     Route("/v1/user/follow-list", FollowListHandler, TRUE),
     Route("/v1/user/fans-list", FansListHandler, TRUE)}
ArticleRoutes ==
    {Route("/v1/article/upload/cover", UploadCoverHandler, TRUE),
     Route("/v1/article/publish", PublishHandler, TRUE),
     Route("/v1/article/detail", ArticleDetailHandler, TRUE),
     Route("/v1/article/list", ArticleListHandler, TRUE)}

\* The stages of a route's logic.
Logic(name, user, target) ==
    CASE name = "Register"      -> RegisterLogic(user, target)
      [] name = "Verification"  -> VerificationLogic(user, target)
      [] name = "Login"         -> LoginLogic(user, target)
      [] name = "UserInfo"      -> UserInfoLogic(user, target)
      [] name = "Thumbup"       -> ThumbupLogic(user, target)
      [] name = "IsThumbup"     -> IsThumbupLogic(user, target)
      [] name = "Follow"        -> FollowLogic(user, target)
      [] name = "UnFollow"      -> UnFollowLogic(user, target)
      [] name = "FollowList"    -> FollowListLogic(user, target)
      [] name = "FansList"      -> FansListLogic(user, target)
      [] name = "UploadCover"   -> UploadCoverLogic(user, target)
      [] name = "Publish"       -> PublishLogic(user, target)
      [] name = "ArticleDetail" -> ArticleDetailLogic(user, target)
      [] name = "ArticleList"   -> ArticleListLogic(user, target)

\* The gateways.  Only applet's clients install the interceptor for errors.
\* Bug: applet's clients have none either.
Applet_NoInterceptor == [name |-> "applet", routes |-> AppletRoutes, clientInterceptor |-> FALSE]
Applet == [name |-> "applet", routes |-> AppletRoutes, clientInterceptor |-> TRUE]
ArticleApi == [name |-> "article-api", routes |-> ArticleRoutes, clientInterceptor |-> FALSE]
================================================================================

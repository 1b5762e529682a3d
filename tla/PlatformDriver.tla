--------------------------- MODULE PlatformDriver ---------------------------
(***************************************************************************)
(* The Graph API driver beside the media library it publishes from.  A     *)
(* call of execute is a sequence of HTTP requests; between two of them the *)
(* library changes, and the platform, to which the driver only gives a     *)
(* signed URL, downloads the file from the library when it likes.          *)
(*                                                                         *)
(* The platform is external: it answers a request as asked, without an id, *)
(* with an error, or its answer is lost, applied or not.  The expiry of a  *)
(* signed URL is a choice of the download.                                 *)
(***************************************************************************)
EXTENDS MediaLibrary, Sequences

CONSTANTS
  Jobs,      \* jobs that a worker executes
  Payloads,  \* bound: the lists of items that jobs publish
  Refusals,  \* bound: the errors with which the platform answers
  MaxPolls   \* containerPollMaxAttempts

ASSUME DriverAssumption == Payloads \subseteq Seq(Assets) /\ MaxPolls \in Nat \ {0}

VARIABLE call  \* per job, the call of execute under way

vars == <<media, call>>

Publishing == {"publish_media", "publish_story"}
Reading    == {"fetch_insights", "warmup_action"}

\* What a refusal is called, by what the platform's error says: the table of
\* mapHttpError, and the ways for a request to fail without one.
Verdict ==
  [unnamed     |-> "invalid_input",        lost       |-> "proxy_error",
   dead_token  |-> "token_dead",           checkpoint |-> "checkpoint_required",
   rate_limit  |-> "rate_limited",         policy     |-> "account_error",
   bad_request |-> "invalid_input",        outage     |-> "platform_outage",
   other       |-> "unknown"]

Failures == Refusals \cup {"unnamed", "lost"}
Classes  == {Verdict[f] : f \in DOMAIN Verdict}

ASSUME RefusalAssumption == Refusals \subseteq DOMAIN Verdict \ {"unnamed", "lost"}

Container == [asset : Assets, status : {"in_progress", "finished", "error", "expired"},
              content : Contents \cup {Nothing}]

NoCall == [at |-> "idle", kind |-> "none", items |-> <<>>, made |-> <<>>, turn |-> 0,
           shown |-> <<>>, posts |-> 0, acked |-> FALSE, result |-> "none"]

CallTypeOK ==
  \A j \in Jobs :
    /\ call[j].at \in {"idle", "create", "poll", "parent", "publish", "permalink", "read", "done"}
    /\ call[j].kind \in Publishing \cup Reading \cup {"none", "other"}
    /\ call[j].items \in Seq(Assets) /\ call[j].made \in Seq(Container)
    /\ call[j].turn \in Nat /\ (call[j].at = "poll" => call[j].turn < MaxPolls)
    /\ call[j].posts \in Nat
    /\ call[j].result \in Classes \cup {"none", "ok"}

TypeOK == MediaTypeOK /\ CallTypeOK

Init == MediaInit /\ call = [j \in Jobs |-> NoCall]

-----------------------------------------------------------------------------

Goes(j, c) == call' = [call EXCEPT ![j] = c]
Ends(j, c, result) ==
  Goes(j, [c EXCEPT !.at = "done", !.result = result, !.made = <<>>, !.turn = 0])

\* How many of its items a call shows: a story takes the first, and says nothing
\* of the others.
Due(c) == IF c.kind = "publish_story" THEN 1 ELSE Len(c.items)

\* Wrong variant: the items are taken from the last to the first.
ItemInTurnBackwards(c) == c.items[Due(c) - Len(c.made)]

\* The item that the next container is for.
ItemInTurn(c) == c.items[Len(c.made) + 1]

\* The step after a container is ready: the next item, the carousel, the post.
After(c) == IF Len(c.made) < Due(c) THEN "create"
            ELSE IF Due(c) > 1 THEN "parent" ELSE "publish"

Begun(kind, items) ==
  [NoCall EXCEPT !.kind = kind, !.items = items,
                 !.at = IF kind \in Publishing THEN "create" ELSE "read"]

\* Nothing is sent without an id of the account, a media, a token and a proxy.
Execute(j, kind, items) ==
  /\ call[j].at = "idle" /\ (kind \in Publishing \/ items = <<>>)
  /\ \/ \E why \in {"invalid_input", "token_dead", "proxy_error"} :
          Ends(j, Begun(kind, items), why)
     \/ /\ kind \in Publishing => items # <<>>
        /\ kind # "other"
        /\ Goes(j, Begun(kind, items))

\* One container per item; that of a video is polled before the call goes on.
CreateMediaContainer(j) ==
  LET c == call[j]  a == ItemInTurn(c) IN
  /\ c.at = "create"
  /\ \/ /\ ~Resolves(a)
        /\ Ends(j, c, "invalid_input")
     \/ /\ Resolves(a)
        /\ \E f \in Failures : Ends(j, c, Verdict[f])
     \/ /\ Resolves(a)
        /\ LET next == [c EXCEPT !.made = Append(c.made,
                          [asset |-> a, status |-> "in_progress", content |-> Nothing]), !.turn = 0]
           IN Goes(j, [next EXCEPT !.at = IF Kind(asset[a].type) = "video" THEN "poll" ELSE After(next)])

\* Wrong variant: the loop takes one turn too many.
WaitForContainerOnceMore(j) ==
  LET c == call[j] IN
  /\ c.at = "poll" /\ c.made[Len(c.made)].status = "in_progress"
  /\ IF c.turn = MaxPolls THEN Ends(j, c, "platform_outage") ELSE Goes(j, [c EXCEPT !.turn = c.turn + 1])

\* The status of the container, asked for a bounded number of times.
WaitForContainer(j) ==
  LET c == call[j]  status == c.made[Len(c.made)].status IN
  /\ c.at = "poll"
  /\ \/ \E f \in Failures \ {"unnamed"} : Ends(j, c, Verdict[f])
     \/ /\ status = "finished"
        /\ Goes(j, [c EXCEPT !.at = After(c)])
     \/ /\ status \in {"error", "expired"}
        /\ Ends(j, c, "account_error")
     \/ /\ status = "in_progress"
        /\ IF c.turn + 1 = MaxPolls THEN Ends(j, c, "platform_outage")
           ELSE Goes(j, [c EXCEPT !.turn = c.turn + 1])

CreateCarousel(j) ==
  /\ call[j].at = "parent"
  /\ \/ \E f \in Failures : Ends(j, call[j], Verdict[f])
     \/ Goes(j, [call[j] EXCEPT !.at = "publish"])

\* The platform posts what it has: the contents it has downloaded, or nothing.
Posted(c) == [c EXCEPT !.posts = c.posts + 1,
                       !.shown = [i \in 1 .. Len(c.made) |-> c.made[i].content]]

\* Wrong variant: a publication whose answer is lost is sent again.
PublishContainerAgain(j) ==
  LET c == call[j] IN
  /\ c.at = "publish"
  /\ \A i \in 1 .. Len(c.made) : c.made[i].status = "finished"
  /\ \/ Goes(j, Posted(c))
     \/ Ends(j, [Posted(c) EXCEPT !.acked = TRUE], "ok")

PublishContainer(j) ==
  LET c == call[j] IN
  /\ c.at = "publish"
  /\ \/ \E f \in Refusals \cup {"lost"} : Ends(j, c, Verdict[f])
     \/ /\ \A i \in 1 .. Len(c.made) : c.made[i].status = "finished"
        /\ \/ \E f \in {"unnamed", "lost"} : Ends(j, Posted(c), Verdict[f])
           \/ /\ c.kind = "publish_story"
              /\ Ends(j, [Posted(c) EXCEPT !.acked = TRUE], "ok")
           \/ /\ c.kind = "publish_media"
              /\ Goes(j, [Posted(c) EXCEPT !.acked = TRUE, !.at = "permalink"])

\* Wrong variant: the call fails with its last request.
FetchPermalinkOrFail(j) ==
  /\ call[j].at = "permalink"
  /\ \/ Ends(j, call[j], "ok")
     \/ \E f \in Failures : Ends(j, call[j], Verdict[f])

\* The permalink is best effort.
FetchPermalink(j) == call[j].at = "permalink" /\ Ends(j, call[j], "ok")

\* Insights take two requests, a warmup one.
Read(j) ==
  LET c == call[j] IN
  /\ c.at = "read"
  /\ \/ \E f \in Failures \ {"unnamed"} : Ends(j, c, Verdict[f])
     \/ /\ c.kind = "fetch_insights" /\ c.turn = 0
        /\ Goes(j, [c EXCEPT !.turn = 1])
     \/ /\ c.kind = "fetch_insights" => c.turn = 1
        /\ Ends(j, c, "ok")

\* The worker takes the result.
Returns(j) == call[j].at = "done" /\ Goes(j, NoCall)

\* The platform downloads the file of a container, late or in time, or gives up
\* a container that was not published.
Turns(j, i, m) == Goes(j, [call[j] EXCEPT !.made = [call[j].made EXCEPT ![i] = m]])

PlatformFetches(j, i) ==
  LET m == call[j].made[i] IN
  /\ m.status = "in_progress"
  /\ \E valid \in BOOLEAN :
       Turns(j, i, IF Opens(m.asset, valid) = "stream"
                   THEN [m EXCEPT !.status = "finished", !.content = asset[m.asset].content]
                   ELSE [m EXCEPT !.status = "error"])

PlatformExpires(j, i) ==
  LET m == call[j].made[i] IN
  /\ m.status \in {"in_progress", "finished"} /\ call[j].posts = 0
  /\ Turns(j, i, [m EXCEPT !.status = "expired"])

DriverNext == \E j \in Jobs :
  \/ \E kind \in Publishing \cup Reading \cup {"other"}, items \in Payloads : Execute(j, kind, items)
  \/ CreateMediaContainer(j)
  \/ WaitForContainer(j)
  \/ CreateCarousel(j)
  \/ PublishContainer(j)
  \/ FetchPermalink(j)
  \/ Read(j)
  \/ Returns(j)
  \/ \E i \in 1 .. Len(call[j].made) : PlatformFetches(j, i) \/ PlatformExpires(j, i)

Next ==
  \/ MediaNext /\ UNCHANGED call
  \/ DriverNext /\ UNCHANGED media

Spec == Init /\ [][Next]_vars

-----------------------------------------------------------------------------

\* A publication shows all the items of its payload in their order, a story the
\* first of them and no other, each as it was ingested, whatever is deleted, moved
\* or ingested while the containers are made.
PostedAsAsked ==
  \A j \in Jobs : call[j].posts > 0 =>
    /\ Len(call[j].shown) = IF call[j].kind = "publish_story" THEN 1 ELSE Len(call[j].items)
    /\ \A i \in 1 .. Len(call[j].shown) : call[j].shown[i] = asset[call[j].items[i]].content

\* A call posts at most once, and its result agrees with what it posted: a post
\* the platform acknowledged is a success whatever fails after it, a success of
\* a publication has posted, and no account, token or checkpoint is blamed by a
\* call that posted.
ResultMatchesPost ==
  \A j \in Jobs : call[j].at = "done" =>
    /\ call[j].posts <= 1
    /\ call[j].acked => call[j].result = "ok"
    /\ call[j].kind \in Publishing /\ call[j].result = "ok" => call[j].posts = 1
    /\ call[j].posts = 1 => call[j].result \in {"ok", "proxy_error", "invalid_input"}

-----------------------------------------------------------------------------
(* The requests of a call together implement one post.                     *)

\* What a kind of operation asks of the platform.
Shape(kind) == CASE kind = "publish_media" -> "post"
                 [] kind = "publish_story" -> "story"
                 [] OTHER                  -> "other"

\* What there is to a call when its requests and containers are left out.
Summary(c) == [at |-> IF c.at \in {"idle", "done"} THEN c.at ELSE "open",
               shape |-> Shape(c.kind), items |-> c.items, shown |-> c.shown,
               posts |-> c.posts, acked |-> c.acked]

Summaries == [j \in Jobs |-> Summary(call[j])]
Reported  == [j \in Jobs |-> call[j].result]

\* An item is filed once it exists, live or deleted.
Filed == [a \in Assets |-> IF asset[a].status = "none" THEN Nothing ELSE asset[a].content]

Posting == INSTANCE PostOnce WITH
  Items <- Assets, Requests <- Payloads, Errors <- Classes,
  Uncertain <- {"proxy_error", "invalid_input"},
  filed <- Filed, call <- Summaries, report <- Reported

\* Seen from the library and from the worker, the containers, the polls and the
\* late downloads are one post: whatever is deleted or moved meanwhile, it shows
\* every item it is due, of a story the first, as it was ingested or it does not
\* happen, it happens once at most and before the call is over, and the report of
\* the call stands and agrees.
ImplementsPostOnce == Posting!Spec
=============================================================================

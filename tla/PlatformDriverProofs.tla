------------------------ MODULE PlatformDriverProofs ------------------------
(***************************************************************************)
(* Proofs about PlatformDriver, on top of those about the library: an item *)
(* that once existed keeps its content, so what the platform downloads for *)
(* a container is what the payload asked for, however late it does; and    *)
(* what a call posted, acknowledged and reports is told by where it is.    *)
(* Together they make of the requests of a call the one step of PostOnce.  *)
(***************************************************************************)
EXTENDS PlatformDriver, MediaLibraryProofs, SequenceTheorems, TLAPS

Call ==
  [at : {"idle", "create", "poll", "parent", "publish", "permalink", "read", "done"},
   kind : Publishing \cup Reading \cup {"none", "other"}, items : Seq(Assets), made : Seq(Container),
   turn : Nat, shown : Seq(Contents \cup {Nothing}), posts : Nat, acked : BOOLEAN,
   result : Classes \cup {"none", "ok"}]

\* A container of item a: what it has of the item, if it has it.
Made(m, a) ==
  /\ m.asset = a /\ asset[a].status # "none"
  /\ m.status = "finished" => m.content = asset[a].content

\* What holds of a call wherever it is.
Sound(c) ==
  /\ c \in Call /\ c.posts <= 1 /\ Len(c.made) <= Due(c)
  /\ \A i \in 1 .. Len(c.made) : Made(c.made[i], c.items[i])
  /\ c.posts > 0 => /\ c.items # <<>> /\ Len(c.shown) = Due(c)
                    /\ \A i \in 1 .. Due(c) : asset[c.items[i]].status # "none"
                                              /\ c.shown[i] = asset[c.items[i]].content

\* What the result of a call must be.
Told(c, result) ==
  /\ c.acked => result = "ok"
  /\ c.kind \in Publishing /\ result = "ok" => c.posts = 1
  /\ c.posts = 1 => result \in {"ok", "proxy_error", "invalid_input"}

\* What where the call is says of it.
Placed(c) ==
  /\ c.at = "create" => Len(c.made) < Due(c)
  /\ c.at = "poll" => c.turn < MaxPolls /\ Len(c.made) > 0
  /\ c.at \in {"parent", "publish"} => Len(c.made) = Due(c)
  /\ c.at \in {"create", "poll", "parent", "publish"} => c.kind \in Publishing /\ c.items # <<>>
  /\ c.at = "permalink" => c.kind = "publish_media" /\ c.posts = 1
  /\ c.at = "read" => c.kind \notin Publishing
  /\ c.at \notin {"permalink", "done"} => c.posts = 0 /\ ~c.acked
  /\ c.at = "done" => Told(c, c.result)
  /\ c.at # "done" => c.result = "none"

Driven == call \in [Jobs -> Call] /\ \A j \in Jobs : Sound(call[j]) /\ Placed(call[j])

-----------------------------------------------------------------------------
(* The steps of a call.                                                    *)

\* A call that has items to show shows at least one, and no more than it has.
LEMMA DueBound ==
  ASSUME NEW c \in Call
  PROVE  /\ Due(c) \in Nat /\ Len(c.items) \in Nat
         /\ c.items # <<>> => 0 < Due(c) /\ Due(c) <= Len(c.items)
<1>1. c.items \in Seq(Assets) /\ Len(c.items) \in Nat BY LenProperties DEF Call
<1>2. c.items # <<>> => Len(c.items) > 0 BY <1>1, EmptySeq
<1> QED BY <1>1, <1>2 DEF Due

LEMMA GoingKeepsDriven ==
  ASSUME Driven, NEW j \in Jobs, NEW c, Goes(j, c), Sound(c), Placed(c), UNCHANGED media
  PROVE  Driven'
<1>1. c \in Call BY DEF Sound
<1>2. call' \in [Jobs -> Call] /\ call'[j] = c /\ \A k \in Jobs \ {j} : call'[k] = call[k]
  BY <1>1 DEF Driven, Goes
<1>3. asset' = asset BY DEF media
<1>4. ASSUME NEW k \in Jobs PROVE (Sound(call[k]) /\ Placed(call[k]))'
  <2>1. PICK e : e = call'[k] /\ Sound(e) /\ Placed(e)
    <3>1. CASE k = j BY <1>2, <3>1
    <3>2. CASE k # j BY <1>2, <3>2 DEF Driven
    <3> QED BY <3>1, <3>2
  <2>2. Sound(e)' BY <1>3, <2>1 DEF Sound, Made
  <2>3. Placed(e)' BY <2>1 DEF Placed, Told
  <2> QED BY <2>1, <2>2, <2>3
<1> QED BY <1>2, <1>4 DEF Driven

LEMMA EndingIsSound ==
  ASSUME NEW c, Sound(c), NEW result \in Classes \cup {"ok"}, Told(c, result)
  PROVE  LET d == [c EXCEPT !.at = "done", !.result = result, !.made = <<>>, !.turn = 0]
         IN  Sound(d) /\ Placed(d)
<1> DEFINE d == [c EXCEPT !.at = "done", !.result = result, !.made = <<>>, !.turn = 0]
<1>1. c \in Call /\ <<>> \in Seq(Container) BY EmptySeq DEF Sound
<1>2. /\ d \in Call /\ d.at = "done" /\ d.result = result /\ d.made = <<>> /\ d.items = c.items
      /\ d.posts = c.posts /\ d.shown = c.shown /\ d.acked = c.acked /\ d.kind = c.kind
  BY <1>1 DEF Call
<1> HIDE DEF d
<1>3. Len(<<>>) = 0 /\ Due(d) = Due(c) /\ Due(c) \in Nat BY <1>1, <1>2, EmptySeq, DueBound DEF Due
<1>4. Sound(d) BY <1>2, <1>3 DEF Sound
<1>5. Placed(d) BY <1>2 DEF Placed, Told
<1> QED BY <1>4, <1>5 DEF d

\* A call that has not posted may end with any error.
LEMMA EndsKeepsDriven ==
  ASSUME Driven, NEW j \in Jobs, NEW c, Sound(c), NEW result \in Classes \cup {"ok"},
         Told(c, result), Ends(j, c, result), UNCHANGED media
  PROVE  Driven'
<1>1. PICK d : d = [c EXCEPT !.at = "done", !.result = result, !.made = <<>>, !.turn = 0] OBVIOUS
<1>2. Sound(d) /\ Placed(d) BY <1>1, EndingIsSound
<1>3. Goes(j, d) BY <1>1 DEF Ends
<1> QED BY <1>2, <1>3, GoingKeepsDriven

\* The verdicts are error classes, none of which is a success.
LEMMA VerdictIsClass ==
  ASSUME NEW f \in Failures PROVE Verdict[f] \in Classes /\ Verdict[f] # "ok"
<1>1. f \in DOMAIN Verdict BY RefusalAssumption DEF Failures, Verdict
<1> QED BY <1>1 DEF Classes, Verdict

LEMMA FailingKeepsDriven ==
  ASSUME Driven, NEW j \in Jobs, call[j].at \notin {"permalink", "done"},
         NEW result \in Classes, result # "ok", Ends(j, call[j], result), UNCHANGED media
  PROVE  Driven'
<1>1. PICK c \in Call : c = call[j] BY DEF Driven
<1>2. Sound(c) /\ Told(c, result) BY <1>1 DEF Driven, Placed, Told
<1> QED BY <1>1, <1>2, EndsKeepsDriven

LEMMA ExecuteKeepsDriven ==
  ASSUME Driven, NEW j \in Jobs, NEW kind \in Publishing \cup Reading \cup {"other"},
         NEW items \in Payloads, Execute(j, kind, items), UNCHANGED media
  PROVE  Driven'
<1>0. items \in Seq(Assets) BY DriverAssumption DEF DriverAssumption
<1>1. PICK c : c = Begun(kind, items) OBVIOUS
<1>2. /\ c \in Call /\ c.made = <<>> /\ c.posts = 0 /\ ~c.acked /\ c.items = items /\ c.kind = kind
      /\ c.at = (IF kind \in Publishing THEN "create" ELSE "read") /\ c.result = "none"
  <2>1. /\ <<>> \in Seq(Container) /\ <<>> \in Seq(Contents \cup {Nothing}) BY EmptySeq
  <2> QED BY <1>0, <1>1, <2>1 DEF Begun, Call, NoCall
<1>3. Len(<<>>) = 0 /\ Due(c) \in Nat BY <1>2, EmptySeq, DueBound
<1>4. Sound(c) BY <1>2, <1>3 DEF Sound
<1>5. ASSUME NEW why \in {"invalid_input", "token_dead", "proxy_error"}, Ends(j, c, why)
      PROVE  Driven'
  <2>1. why \in Classes /\ Told(c, why) BY <1>2, <1>5 DEF Classes, Verdict, Told
  <2> QED BY <1>4, <1>5, <2>1, EndsKeepsDriven
<1>6. ASSUME Goes(j, c), kind \in Publishing => items # <<>> PROVE Driven'
  <2>1. kind \in Publishing => 0 < Due(c) BY <1>2, <1>6, DueBound
  <2>2. Placed(c) BY <1>2, <1>3, <1>6, <2>1 DEF Placed
  <2> QED BY <1>4, <1>6, <2>2, GoingKeepsDriven
<1> QED BY <1>1, <1>5, <1>6 DEF Execute

\* One more container for the item whose turn it is.
LEMMA CreateKeepsDriven ==
  ASSUME Driven, NEW j \in Jobs, CreateMediaContainer(j), UNCHANGED media, MediaTypeOK
  PROVE  Driven'
<1> PICK c \in Call : c = call[j] BY DEF Driven
<1>0. /\ c.at = "create" /\ Sound(c) /\ Placed(c) BY DEF Driven, CreateMediaContainer
<1>1. /\ c.items \in Seq(Assets) /\ c.made \in Seq(Container) BY DEF Call
<1>2. /\ Due(c) \in Nat /\ Len(c.made) \in Nat /\ Len(c.made) < Due(c)
      /\ Len(c.items) \in Nat /\ Due(c) <= Len(c.items) /\ c.items # <<>>
      /\ c.kind \in Publishing /\ c.posts = 0 /\ ~c.acked /\ c.result = "none"
  BY <1>0, <1>1, LenProperties, DueBound DEF Placed
<1> PICK a \in Assets : a = c.items[Len(c.made) + 1]
  <2>1. Len(c.made) + 1 \in 1 .. Len(c.items) BY <1>2
  <2> QED BY <1>1, <2>1, ElementOfSeq
<1>3. ASSUME NEW result \in Classes, result # "ok", Ends(j, c, result) PROVE Driven'
  BY <1>0, <1>3, FailingKeepsDriven
<1>4. "invalid_input" \in Classes BY DEF Classes, Verdict
<1>5. ASSUME Resolves(a),
             NEW d, d = [c EXCEPT !.made = Append(c.made, [asset |-> a, status |-> "in_progress",
                                                           content |-> Nothing]), !.turn = 0],
             NEW e, e = [d EXCEPT !.at = IF Kind(asset[a].type) = "video" THEN "poll" ELSE After(d)],
             Goes(j, e)
      PROVE  Driven'
  <2>1. PICK m \in Container : m = [asset |-> a, status |-> "in_progress", content |-> Nothing]
    BY DEF Container
  <2>2. PICK made \in Seq(Container) : made = Append(c.made, m)
    BY <1>1, AppendProperties
  <2>3. /\ Len(made) = Len(c.made) + 1 /\ made[Len(c.made) + 1] = m
        /\ \A i \in 1 .. Len(c.made) : made[i] = c.made[i]
    BY <1>1, <1>2, <2>2, AppendProperties
  <2>4. d = [c EXCEPT !.made = made, !.turn = 0] BY <1>5, <2>1, <2>2
  <2>5. /\ d \in Call /\ d.made = made /\ d.items = c.items /\ d.turn = 0
        /\ d.kind = c.kind /\ d.posts = c.posts /\ d.acked = c.acked /\ d.result = c.result
    BY <2>4 DEF Call
  <2>6. PICK at : at = IF Kind(asset[a].type) = "video" THEN "poll" ELSE After(d) OBVIOUS
  <2>7. /\ at \in {"poll", "create", "parent", "publish"}
        /\ at = "create" => Len(made) < Due(c)
        /\ at \in {"parent", "publish"} => ~(Len(made) < Due(c))
    BY <2>5, <2>6 DEF After, Due
  <2>8. e = [d EXCEPT !.at = at] BY <1>5, <2>6
  <2>9. /\ e \in Call /\ e.at = at /\ e.made = made /\ e.items = c.items /\ e.turn = 0
        /\ e.kind = c.kind /\ e.posts = 0 /\ ~e.acked /\ e.result = "none"
    BY <1>2, <2>5, <2>7, <2>8 DEF Call
  <2>10. \A i \in 1 .. Len(made) : Made(made[i], c.items[i])
    <3> TAKE i \in 1 .. Len(made)
    <3>1. CASE i \in 1 .. Len(c.made) BY <1>0, <2>3, <3>1 DEF Sound
    <3>2. CASE i = Len(c.made) + 1
      <4>1. made[i] = m /\ c.items[i] = a BY <2>3, <3>2
      <4>2. m.asset = a /\ m.status = "in_progress" BY <2>1
      <4>3. asset[a].status # "none" BY <1>5 DEF Resolves
      <4> QED BY <4>1, <4>2, <4>3 DEF Made
    <3> QED BY <1>2, <2>3, <3>1, <3>2
  <2>11. Len(made) <= Due(c) /\ Due(e) = Due(c) BY <1>2, <2>3, <2>9 DEF Due
  <2>12. Sound(e) BY <2>9, <2>10, <2>11 DEF Sound
  <2>13. MaxPolls \in Nat \ {0} BY DriverAssumption DEF DriverAssumption
  <2>14. Len(made) > 0 /\ (at \in {"parent", "publish"} => Len(made) = Due(c))
    BY <1>2, <2>3, <2>7, <2>11
  <2>15. Placed(e) BY <1>2, <2>7, <2>9, <2>11, <2>13, <2>14 DEF Placed
  <2> QED BY <1>5, <2>12, <2>15, GoingKeepsDriven
<1>6. CASE Ends(j, c, "invalid_input") BY <1>3, <1>4, <1>6
<1>7. ASSUME NEW f \in Failures, Ends(j, c, Verdict[f]) PROVE Driven'
  BY <1>3, <1>7, VerdictIsClass
<1> QED BY <1>5, <1>6, <1>7 DEF CreateMediaContainer, ItemInTurn

\* A call goes on from a state to another of the publication.
LEMMA PollKeepsDriven ==
  ASSUME Driven, NEW j \in Jobs, WaitForContainer(j), UNCHANGED media
  PROVE  Driven'
<1> PICK c \in Call : c = call[j] BY DEF Driven
<1>0. c.at = "poll" /\ Sound(c) /\ Placed(c) BY DEF Driven, WaitForContainer
<1>1. /\ Due(c) \in Nat /\ Len(c.made) \in Nat /\ c.turn \in Nat /\ c.turn < MaxPolls
      /\ c.kind \in Publishing /\ c.items # <<>> /\ c.posts = 0 /\ ~c.acked /\ c.result = "none"
      /\ Len(c.made) > 0 /\ Len(c.made) <= Due(c)
  BY <1>0, LenProperties, DueBound DEF Placed, Sound, Call
<1>2. ASSUME NEW result \in Classes, result # "ok", Ends(j, c, result) PROVE Driven'
  BY <1>0, <1>2, FailingKeepsDriven
<1>3. "account_error" \in Classes /\ "platform_outage" \in Classes BY DEF Classes, Verdict
<1>4. ASSUME NEW f \in Failures, Ends(j, c, Verdict[f]) PROVE Driven'
  BY <1>2, <1>4, VerdictIsClass
<1>5. CASE Goes(j, [c EXCEPT !.at = After(c)])
  <2>1. PICK at : at = After(c) OBVIOUS
  <2>2. /\ at \in {"create", "parent", "publish"}
        /\ at = "create" => Len(c.made) < Due(c)
        /\ at \in {"parent", "publish"} => Len(c.made) = Due(c)
    BY <1>1, <2>1 DEF After
  <2>3. PICK e : e = [c EXCEPT !.at = at] OBVIOUS
  <2>4. /\ e \in Call /\ e.at = at /\ e.made = c.made /\ e.items = c.items /\ e.kind = c.kind
        /\ e.posts = 0 /\ ~e.acked /\ e.result = "none"
    BY <1>1, <2>2, <2>3 DEF Call
  <2>5. Sound(e) BY <1>0, <2>4 DEF Sound, Due
  <2>6. Placed(e) BY <1>1, <2>2, <2>4 DEF Placed, Due
  <2> QED BY <1>5, <2>1, <2>3, <2>5, <2>6, GoingKeepsDriven
<1>6. CASE c.turn + 1 # MaxPolls /\ Goes(j, [c EXCEPT !.turn = c.turn + 1])
  <2>1. PICK e : e = [c EXCEPT !.turn = c.turn + 1] OBVIOUS
  <2>2. /\ e \in Call /\ e.at = "poll" /\ e.made = c.made /\ e.items = c.items /\ e.kind = c.kind
        /\ e.posts = 0 /\ ~e.acked /\ e.turn = c.turn + 1 /\ e.result = "none"
    <3>1. c \in Call /\ c.turn + 1 \in Nat BY <1>1
    <3>2. /\ e \in Call /\ e.at = c.at /\ e.made = c.made /\ e.items = c.items /\ e.kind = c.kind
          /\ e.posts = c.posts /\ e.acked = c.acked /\ e.turn = c.turn + 1 /\ e.result = c.result
      BY <2>1, <3>1 DEF Call
    <3> QED BY <1>0, <1>1, <3>2
  <2>3. e.turn < MaxPolls
    <3>1. MaxPolls \in Nat BY DriverAssumption DEF DriverAssumption
    <3> QED BY <1>1, <1>6, <2>2, <3>1
  <2>4. Sound(e) BY <1>0, <2>2 DEF Sound, Due
  <2>5. Placed(e) BY <1>1, <2>2, <2>3 DEF Placed, Due
  <2> QED BY <1>6, <2>1, <2>4, <2>5, GoingKeepsDriven
<1> QED BY <1>2, <1>3, <1>4, <1>5, <1>6 DEF WaitForContainer

LEMMA CarouselKeepsDriven ==
  ASSUME Driven, NEW j \in Jobs, CreateCarousel(j), UNCHANGED media
  PROVE  Driven'
<1> PICK c \in Call : c = call[j] BY DEF Driven
<1>0. c.at = "parent" /\ Sound(c) /\ Placed(c) BY DEF Driven, CreateCarousel
<1>1. ASSUME NEW f \in Failures, Ends(j, c, Verdict[f]) PROVE Driven'
  BY <1>0, <1>1, VerdictIsClass, FailingKeepsDriven
<1>2. CASE Goes(j, [c EXCEPT !.at = "publish"])
  <2>1. PICK e : e = [c EXCEPT !.at = "publish"] OBVIOUS
  <2>2. /\ e \in Call /\ e.at = "publish" /\ e.made = c.made /\ e.items = c.items
        /\ e.kind = c.kind /\ e.posts = c.posts /\ e.acked = c.acked /\ e.shown = c.shown
        /\ e.result = c.result
    BY <2>1 DEF Call
  <2>3. Sound(e) BY <1>0, <2>2 DEF Sound, Due
  <2>4. Placed(e) BY <1>0, <2>2 DEF Placed, Due
  <2> QED BY <1>2, <2>1, <2>3, <2>4, GoingKeepsDriven
<1> QED BY <1>1, <1>2 DEF CreateCarousel

\* What the platform posts for a call is what the call asked for.
LEMMA PostingIsSound ==
  ASSUME NEW c \in Call, Sound(c), Len(c.made) = Due(c), c.items # <<>>, c.posts = 0,
         \A i \in 1 .. Len(c.made) : c.made[i].status = "finished"
  PROVE  /\ Posted(c) \in Call /\ Sound(Posted(c)) /\ Posted(c).posts = 1
         /\ Posted(c).kind = c.kind /\ Posted(c).acked = c.acked /\ Posted(c).items = c.items
         /\ Posted(c).made = c.made /\ Posted(c).result = c.result
<1> DEFINE shown == [i \in 1 .. Len(c.made) |-> c.made[i].content]
<1>1. Len(c.made) \in Nat /\ c.made \in Seq(Container) BY LenProperties DEF Call
<1>2. \A i \in 1 .. Len(c.made) : c.made[i].content \in Contents \cup {Nothing}
  <2> TAKE i \in 1 .. Len(c.made)
  <2>1. c.made[i] \in Container BY <1>1, ElementOfSeq
  <2> QED BY <2>1 DEF Container
<1>3. shown \in Seq(Contents \cup {Nothing}) /\ Len(shown) = Len(c.made)
  <2>1. shown \in [1 .. Len(c.made) -> Contents \cup {Nothing}] BY <1>2
  <2>2. shown \in Seq(Contents \cup {Nothing}) BY <1>1, <2>1, SeqDef
  <2>3. DOMAIN shown = 1 .. Len(c.made) /\ DOMAIN shown = 1 .. Len(shown) /\ Len(shown) \in Nat
    BY <2>2, LenProperties
  <2> QED BY <1>1, <2>2, <2>3
<1>4. \A i \in 1 .. Due(c) : asset[c.items[i]].status # "none"
                            /\ shown[i] = asset[c.items[i]].content
  <2> TAKE i \in 1 .. Due(c)
  <2>1. Made(c.made[i], c.items[i]) /\ shown[i] = c.made[i].content BY DEF Sound
  <2> QED BY <2>1 DEF Made
<1> HIDE DEF shown
<1>5. Posted(c) = [c EXCEPT !.posts = 1, !.shown = shown]
  <2>1. c.posts + 1 = 1 OBVIOUS
  <2> QED BY <2>1 DEF Posted, shown
<1>6. /\ Posted(c) \in Call /\ Posted(c).posts = 1 /\ Posted(c).shown = shown
      /\ Posted(c).kind = c.kind /\ Posted(c).acked = c.acked /\ Posted(c).items = c.items
      /\ Posted(c).made = c.made /\ Posted(c).result = c.result
  <2>1. PICK d : d = [c EXCEPT !.posts = 1, !.shown = shown] OBVIOUS
  <2>2. c \in Call /\ 1 \in Nat /\ shown \in Seq(Contents \cup {Nothing}) BY <1>3
  <2>3. d \in Call BY <2>1, <2>2 DEF Call
  <2>4. /\ d.posts = 1 /\ d.shown = shown /\ d.kind = c.kind /\ d.acked = c.acked
        /\ d.items = c.items /\ d.made = c.made /\ d.result = c.result
    BY <2>1, <2>2 DEF Call
  <2>5. Posted(c) = d BY <1>5, <2>1
  <2> QED BY <2>3, <2>4, <2>5
<1>7. Due(Posted(c)) = Due(c) BY <1>6 DEF Due
<1>8. Sound(Posted(c)) BY <1>3, <1>4, <1>6, <1>7 DEF Sound
<1> QED BY <1>6, <1>8

LEMMA PublishKeepsDriven ==
  ASSUME Driven, NEW j \in Jobs, PublishContainer(j), UNCHANGED media
  PROVE  Driven'
<1> PICK c \in Call : c = call[j] BY DEF Driven
<1>0. /\ c.at = "publish" /\ Sound(c) /\ Placed(c) /\ c.posts = 0 /\ ~c.acked
      /\ c.result = "none" /\ Len(c.made) = Due(c) /\ c.items # <<>>
  BY DEF Driven, PublishContainer, Placed
<1>1. ASSUME NEW f \in Refusals \cup {"lost"}, Ends(j, c, Verdict[f]) PROVE Driven'
  <2>1. f \in Failures BY DEF Failures
  <2> QED BY <1>0, <1>1, <2>1, VerdictIsClass, FailingKeepsDriven
<1>2. ASSUME \A i \in 1 .. Len(c.made) : c.made[i].status = "finished",
             NEW f \in {"unnamed", "lost"}, Ends(j, Posted(c), Verdict[f])
      PROVE  Driven'
  <2>1. Sound(Posted(c)) /\ ~Posted(c).acked /\ Posted(c).posts = 1 BY <1>0, <1>2, PostingIsSound
  <2>2. Verdict[f] \in {"proxy_error", "invalid_input"} BY DEF Verdict
  <2>3. Verdict[f] \in Classes /\ Told(Posted(c), Verdict[f]) BY <2>1, <2>2 DEF Told, Classes, Verdict
  <2> QED BY <1>2, <2>1, <2>3, EndsKeepsDriven
<1>3. ASSUME \A i \in 1 .. Len(c.made) : c.made[i].status = "finished",
             NEW d, d = [Posted(c) EXCEPT !.acked = TRUE]
      PROVE  d \in Call /\ Sound(d) /\ d.acked /\ d.posts = 1 /\ d.kind = c.kind /\ d.items = c.items
             /\ d.made = c.made /\ d.result = c.result
  <2>1. PICK e \in Call : /\ e = Posted(c) /\ Sound(e) /\ e.posts = 1 /\ e.kind = c.kind
                          /\ e.items = c.items /\ e.made = c.made /\ e.result = c.result
    BY <1>0, <1>3, PostingIsSound
  <2>2. /\ d \in Call /\ d.acked /\ d.posts = 1 /\ d.kind = c.kind /\ d.items = c.items
        /\ d.made = e.made /\ d.shown = e.shown /\ d.result = e.result
    BY <1>3, <2>1 DEF Call
  <2> QED BY <2>1, <2>2 DEF Sound, Due
<1>4. ASSUME \A i \in 1 .. Len(c.made) : c.made[i].status = "finished",
             Ends(j, [Posted(c) EXCEPT !.acked = TRUE], "ok")
      PROVE  Driven'
  <2>1. PICK d : d = [Posted(c) EXCEPT !.acked = TRUE] OBVIOUS
  <2>2. Sound(d) /\ Told(d, "ok") BY <1>3, <1>4, <2>1 DEF Told
  <2> QED BY <1>4, <2>1, <2>2, EndsKeepsDriven
<1>5. ASSUME \A i \in 1 .. Len(c.made) : c.made[i].status = "finished", c.kind = "publish_media",
             Goes(j, [Posted(c) EXCEPT !.acked = TRUE, !.at = "permalink"])
      PROVE  Driven'
  <2>1. PICK d \in Call : d = [Posted(c) EXCEPT !.acked = TRUE] /\ Sound(d) /\ d.posts = 1
                          /\ d.kind = c.kind /\ d.acked /\ d.result = c.result
    BY <1>3, <1>5
  <2>2. PICK e : e = [Posted(c) EXCEPT !.acked = TRUE, !.at = "permalink"] OBVIOUS
  <2>3. e = [d EXCEPT !.at = "permalink"] BY <2>1, <2>2
  <2>4. /\ e \in Call /\ e.at = "permalink" /\ e.acked /\ e.posts = 1 /\ e.kind = "publish_media"
        /\ e.items = d.items /\ e.made = d.made /\ e.shown = d.shown /\ e.result = "none"
    BY <1>0, <1>5, <2>1, <2>3 DEF Call
  <2>5. Due(e) = Due(d)
    <3>1. d.kind = e.kind /\ d.items = e.items BY <1>5, <2>1, <2>4
    <3> QED BY <3>1 DEF Due
  <2>6. Sound(e)
    <3>1. Sound(d) BY <2>1
    <3>2. /\ e \in Call /\ e.posts = d.posts /\ e.items = d.items /\ e.made = d.made
          /\ e.shown = d.shown
      BY <2>1, <2>4
    <3> QED BY <2>5, <3>1, <3>2 DEF Sound
  <2>7. Placed(e) BY <2>4 DEF Placed
  <2> QED BY <1>5, <2>2, <2>6, <2>7, GoingKeepsDriven
<1> QED BY <1>1, <1>2, <1>4, <1>5 DEF PublishContainer

LEMMA ReadingKeepsDriven ==
  ASSUME Driven, NEW j \in Jobs, FetchPermalink(j) \/ Read(j) \/ Returns(j), UNCHANGED media
  PROVE  Driven'
<1> PICK c \in Call : c = call[j] BY DEF Driven
<1>0. Sound(c) /\ Placed(c) BY DEF Driven
<1>1. CASE FetchPermalink(j)
  <2>1. Told(c, "ok") /\ Ends(j, c, "ok") BY <1>0, <1>1 DEF FetchPermalink, Placed, Told
  <2> QED BY <1>0, <2>1, EndsKeepsDriven
<1>2. ASSUME c.at = "read", NEW f \in Failures, Ends(j, c, Verdict[f]) PROVE Driven'
  BY <1>2, VerdictIsClass, FailingKeepsDriven
<1>3. ASSUME c.at = "read", Ends(j, c, "ok") PROVE Driven'
  <2>1. Told(c, "ok") BY <1>0, <1>3 DEF Placed, Told
  <2> QED BY <1>0, <1>3, <2>1, EndsKeepsDriven
<1>4. ASSUME c.at = "read", Goes(j, [c EXCEPT !.turn = 1]) PROVE Driven'
  <2>1. PICK e : e = [c EXCEPT !.turn = 1] OBVIOUS
  <2>2. /\ e \in Call /\ e.at = "read" /\ e.made = c.made /\ e.items = c.items
        /\ e.kind = c.kind /\ e.posts = c.posts /\ e.acked = c.acked /\ e.shown = c.shown
        /\ e.result = c.result
    BY <1>4, <2>1 DEF Call
  <2>3. Sound(e) BY <1>0, <2>2 DEF Sound, Due
  <2>4. Placed(e) BY <1>0, <1>4, <2>2 DEF Placed, Due
  <2> QED BY <1>4, <2>1, <2>3, <2>4, GoingKeepsDriven
<1>5. CASE Read(j) BY <1>2, <1>3, <1>4, <1>5 DEF Read
<1>6. CASE Returns(j)
  <2>1. Sound(NoCall) /\ Placed(NoCall)
    <3>1. /\ <<>> \in Seq(Container) /\ <<>> \in Seq(Contents \cup {Nothing}) /\ <<>> \in Seq(Assets)
          /\ Len(<<>>) = 0
      BY EmptySeq
    <3>2. NoCall \in Call BY <3>1 DEF NoCall, Call
    <3>3. Due(NoCall) = 0 BY <3>1 DEF Due, NoCall
    <3> QED BY <3>1, <3>2, <3>3 DEF Sound, Placed, NoCall
  <2> QED BY <1>6, <2>1, GoingKeepsDriven DEF Returns
<1> QED BY <1>1, <1>5, <1>6

\* The platform turns a container that is not finished, or forgets it.
LEMMA PlatformKeepsDriven ==
  ASSUME Driven, NEW j \in Jobs, NEW i \in 1 .. Len(call[j].made),
         PlatformFetches(j, i) \/ PlatformExpires(j, i), UNCHANGED media, MediaTypeOK
  PROVE  Driven'
<1> PICK c \in Call : c = call[j] BY DEF Driven
<1>0. /\ Sound(c) /\ Placed(c) /\ c.made \in Seq(Container) /\ i \in 1 .. Len(c.made)
  BY DEF Driven, Call
<1> PICK m \in Container : m = c.made[i] BY <1>0, ElementOfSeq
<1>1. Made(m, c.items[i]) BY <1>0 DEF Sound
<1>2. ASSUME NEW n \in Container, Made(n, c.items[i]), Turns(j, i, n) PROVE Driven'
  <2>0. /\ [c.made EXCEPT ![i] = n] \in Seq(Container)
        /\ Len([c.made EXCEPT ![i] = n]) = Len(c.made)
        /\ \A k \in 1 .. Len(c.made) :
             [c.made EXCEPT ![i] = n][k] = IF k = i THEN n ELSE c.made[k]
    <3> PICK s \in Seq(Container) : s = c.made BY <1>0
    <3>1. i \in 1 .. Len(s) /\ n \in Container BY <1>0, <1>2
    <3>2. /\ [s EXCEPT ![i] = n] \in Seq(Container)
          /\ Len([s EXCEPT ![i] = n]) = Len(s)
          /\ \A k \in 1 .. Len(s) : [s EXCEPT ![i] = n][k] = IF k = i THEN n ELSE s[k]
      BY <3>1, ExceptSeq
    <3> QED BY <3>2
  <2>1. PICK made \in Seq(Container) : /\ made = [c.made EXCEPT ![i] = n]
                                       /\ Len(made) = Len(c.made)
                                       /\ \A k \in 1 .. Len(c.made) : made[k] = IF k = i THEN n ELSE c.made[k]
    BY <2>0
  <2>2. PICK e : e = [c EXCEPT !.made = made] OBVIOUS
  <2>3. /\ e \in Call /\ e.made = made /\ e.items = c.items /\ e.at = c.at /\ e.kind = c.kind
        /\ e.posts = c.posts /\ e.acked = c.acked /\ e.shown = c.shown /\ e.turn = c.turn
        /\ e.result = c.result
    BY <2>2 DEF Call
  <2>4. \A k \in 1 .. Len(made) : Made(made[k], c.items[k]) BY <1>0, <1>2, <2>1 DEF Sound
  <2>5. Sound(e) BY <1>0, <2>1, <2>3, <2>4 DEF Sound, Due
  <2>6. Placed(e) BY <1>0, <2>1, <2>3 DEF Placed, Told, Due
  <2>7. Goes(j, e) BY <1>2, <2>1, <2>2 DEF Turns
  <2> QED BY <2>5, <2>6, <2>7, GoingKeepsDriven
<1>3. m.asset \in Assets /\ asset[m.asset].status # "none" /\ asset[m.asset].content \in Contents
  BY <1>1 DEF Container, Made, MediaTypeOK
<1>4. CASE Turns(j, i, [m EXCEPT !.status = "finished", !.content = asset[m.asset].content])
  <2>1. PICK n : n = [m EXCEPT !.status = "finished", !.content = asset[m.asset].content] OBVIOUS
  <2>2. n \in Container /\ n.asset = m.asset /\ n.content = asset[m.asset].content
    BY <1>3, <2>1 DEF Container
  <2> QED BY <1>1, <1>2, <1>4, <2>1, <2>2 DEF Made
<1>5. ASSUME NEW status \in {"error", "expired"}, Turns(j, i, [m EXCEPT !.status = status])
      PROVE  Driven'
  <2>1. PICK n : n = [m EXCEPT !.status = status] OBVIOUS
  <2>2. n \in Container /\ n.asset = m.asset /\ n.status # "finished"
    BY <1>5, <2>1 DEF Container
  <2> QED BY <1>1, <1>2, <1>5, <2>1, <2>2 DEF Made
<1> QED BY <1>4, <1>5 DEF PlatformFetches, PlatformExpires

-----------------------------------------------------------------------------
(* The library under the calls.                                            *)

\* An item that exists keeps its content, live or deleted.
LEMMA ItemsKeepContent ==
  ASSUME MediaInv, MediaNext, NEW a \in Assets, asset[a].status # "none"
  PROVE  asset'[a].status # "none" /\ asset'[a].content = asset[a].content
<1>0. MediaTypeOK BY DEF MediaInv
<1>1. UNCHANGED asset => asset'[a].status # "none" /\ asset'[a].content = asset[a].content
  OBVIOUS
<1>2. FolderNext => UNCHANGED asset BY DEF FolderNext, CreateFolder, DeleteFolder
<1>3. ASSUME NEW b \in Assets, NEW f \in Folders, MoveAsset(b, f)
      PROVE  asset'[a].status # "none" /\ asset'[a].content = asset[a].content
  BY <1>0, <1>3, MovingIsTyped
<1>4. ASSUME NEW p \in Clients, IngestNext(p)
      PROVE  asset'[a].status # "none" /\ asset'[a].content = asset[a].content
  <2>1. ASSUME IngestCommits(p)
        PROVE  asset'[a].status # "none" /\ asset'[a].content = asset[a].content
    <3>1. ASSUME NEW b \in Assets, asset[b].status = "none", NEW new, asset' = [asset EXCEPT ![b] = new]
          PROVE  asset'[a].status # "none" /\ asset'[a].content = asset[a].content
      BY <1>0, <3>1 DEF MediaTypeOK
    <3> QED BY <1>1, <2>1, <3>1 DEF IngestCommits, IngestCommitsUnlocked
  <2> QED BY <1>1, <1>4, <2>1 DEF IngestNext, IngestBegins, IngestPuts, IngestEnsures
<1>5. ASSUME NEW p \in Clients, RemovalNext(p)
      PROVE  asset'[a].status # "none" /\ asset'[a].content = asset[a].content
  <2>1. CASE DeleteCommits(p)
    <3>1. PICK b : asset' = [asset EXCEPT ![b] = [asset[b] EXCEPT !.status = "deleted"]]
      BY <2>1 DEF DeleteCommits
    <3>2. asset[a] \in Item BY <1>0 DEF MediaTypeOK
    <3> QED BY <1>0, <3>1, <3>2 DEF MediaTypeOK, Item
  <2> QED BY <1>1, <1>5, <2>1
      DEF RemovalNext, DeleteMarks, Collects, ReclaimLocks, ReclaimUnlinks, ReclaimCloses,
          ReclaimRefused, Fails
<1> QED BY <1>1, <1>2, <1>3, <1>4, <1>5 DEF MediaNext

LEMMA LibraryKeepsDriven ==
  ASSUME MediaInv, Driven, MediaNext, UNCHANGED call
  PROVE  Driven'
<1> SUFFICES ASSUME NEW j \in Jobs PROVE (Sound(call[j]) /\ Placed(call[j]))'
  BY DEF Driven
<1> PICK c \in Call : c = call[j] BY DEF Driven
<1>0. /\ Sound(c) /\ Placed(c) /\ c.items \in Seq(Assets) /\ c.made \in Seq(Container)
      /\ Len(c.items) \in Nat /\ Due(c) \in Nat /\ (c.items # <<>> => Due(c) <= Len(c.items))
  BY DueBound DEF Driven, Call
<1>1. \A a \in Assets : asset[a].status # "none" =>
        asset'[a].status # "none" /\ asset'[a].content = asset[a].content
  BY ItemsKeepContent
<1>2. ASSUME NEW i \in 1 .. Len(c.made) PROVE Made(c.made[i], c.items[i])'
  <2>1. c.made[i] \in Container BY <1>0, ElementOfSeq
  <2>2. c.made[i].asset \in Assets BY <2>1 DEF Container
  <2> QED BY <1>0, <1>1, <2>2 DEF Sound, Made
<1>3. ASSUME c.posts > 0, NEW i \in 1 .. Due(c)
      PROVE  asset'[c.items[i]].status # "none" /\ c.shown[i] = asset'[c.items[i]].content
  <2>1. i \in 1 .. Len(c.items) BY <1>0, <1>3 DEF Sound
  <2>2. c.items[i] \in Assets BY <1>0, <2>1, ElementOfSeq
  <2> QED BY <1>0, <1>1, <1>3, <2>2 DEF Sound
<1>4. Sound(c)' BY <1>0, <1>2, <1>3 DEF Sound, Due
<1>5. Placed(c)' BY <1>0 DEF Placed, Told, Due
<1> QED BY <1>4, <1>5

LEMMA DriverKeepsDriven ==
  ASSUME MediaTypeOK, Driven, DriverNext, UNCHANGED media
  PROVE  Driven'
BY ExecuteKeepsDriven, CreateKeepsDriven, PollKeepsDriven, CarouselKeepsDriven, PublishKeepsDriven,
   ReadingKeepsDriven, PlatformKeepsDriven DEF DriverNext

Inv == MediaInv /\ Driven

LEMMA InvInit == Init => Inv
<1> SUFFICES ASSUME Init PROVE Inv OBVIOUS
<1>1. /\ <<>> \in Seq(Container) /\ <<>> \in Seq(Contents \cup {Nothing}) /\ <<>> \in Seq(Assets)
      /\ Len(<<>>) = 0
  BY EmptySeq
<1>2. NoCall \in Call BY <1>1 DEF NoCall, Call
<1>3. Sound(NoCall) /\ Placed(NoCall) BY <1>1, <1>2 DEF Sound, Placed, NoCall, Due
<1>4. Driven BY <1>2, <1>3 DEF Init, Driven
<1> QED BY <1>4, MediaInvInit DEF Init, Inv

LEMMA InvNext == Inv /\ [Next]_vars => Inv'
<1> SUFFICES ASSUME Inv, [Next]_vars PROVE Inv' OBVIOUS
<1>0. MediaTypeOK BY DEF Inv, MediaInv
<1>1. ASSUME UNCHANGED media PROVE MediaInv' BY <1>1, MediaInvNext DEF Inv
<1>2. CASE MediaNext /\ UNCHANGED call
  <2>1. MediaInv' BY <1>2, MediaInvNext DEF Inv
  <2> QED BY <1>2, <2>1, LibraryKeepsDriven DEF Inv
<1>3. CASE DriverNext /\ UNCHANGED media BY <1>0, <1>1, <1>3, DriverKeepsDriven DEF Inv
<1>4. CASE UNCHANGED vars
  <2>1. UNCHANGED media /\ UNCHANGED call BY <1>4 DEF vars
  <2>2. Driven' BY <2>1 DEF Inv, Driven, Sound, Made, Placed, Told, Due, media
  <2> QED BY <1>1, <2>1, <2>2 DEF Inv
<1> QED BY <1>2, <1>3, <1>4 DEF Next

LEMMA InvImplies == Inv => TypeOK /\ LiveHasBytes /\ PostedAsAsked /\ ResultMatchesPost
<1> SUFFICES ASSUME Inv PROVE TypeOK /\ LiveHasBytes /\ PostedAsAsked /\ ResultMatchesPost
  OBVIOUS
<1>1. MediaTypeOK /\ LiveHasBytes BY DEF Inv, MediaInv
<1>2. \A j \in Jobs : call[j] \in Call /\ Sound(call[j]) /\ Placed(call[j]) BY DEF Inv, Driven
<1>3. CallTypeOK BY <1>2 DEF Call, CallTypeOK, Placed
<1>4. PostedAsAsked BY <1>2 DEF PostedAsAsked, Sound, Due
<1>5. ResultMatchesPost BY <1>2 DEF ResultMatchesPost, Sound, Placed, Told
<1> QED BY <1>1, <1>3, <1>4, <1>5 DEF TypeOK

\* The library and the calls have their types in every reachable state, and a
\* call that polls has not used up its polls.
THEOREM DriverTypeCorrect == Spec => []TypeOK
BY InvInit, InvNext, InvImplies, PTL DEF Spec

\* A live item keeps its bytes beside the calls that publish it.
THEOREM BytesAreKept == Spec => []LiveHasBytes
BY InvInit, InvNext, InvImplies, PTL DEF Spec

\* A publication shows its items in the order of its payload, a story the first of
\* them, for any payload.
THEOREM PostsAreAsAsked == Spec => []PostedAsAsked
BY InvInit, InvNext, InvImplies, PTL DEF Spec

\* A call posts once at most and does not belie what it posted.
THEOREM ResultsMatchPosts == Spec => []ResultMatchesPost
BY InvInit, InvNext, InvImplies, PTL DEF Spec

\* A reclaim takes no bytes of a content with live items.
THEOREM ReclaimTakesNoLiveBytes == Spec => ReclaimSparesLive
<1>1. Inv /\ [Next]_vars =>
        [\A c \in Contents : Key(c) \in bytes /\ Key(c) \notin bytes' => Live(c) = {}]_media
  <2> SUFFICES ASSUME Inv, [Next]_vars, NEW c \in Contents, Key(c) \in bytes, Key(c) \notin bytes'
               PROVE  Live(c) = {}
    OBVIOUS
  <2>1. [MediaNext]_media BY DEF Next, vars
  <2> QED BY <2>1, OnlyReclaimTakesBytes DEF Inv
<1> QED BY <1>1, InvInit, InvNext, PTL DEF Spec, ReclaimSparesLive

-----------------------------------------------------------------------------
(* The requests of a call implement one post.                              *)

\* A step of a call that posts once, or one it does not show.
PStep == [Posting!Next]_(Posting!vars)

\* The promised call changes with the call and with no other.
LEMMA GoingIsSummarised ==
  ASSUME Driven, NEW j \in Jobs, NEW d, Goes(j, d)
  PROVE  /\ Summaries' = [Summaries EXCEPT ![j] = Summary(d)]
         /\ Reported' = [Reported EXCEPT ![j] = d.result]
<1>1. \A k \in Jobs : call'[k] = IF k = j THEN d ELSE call[k]
  BY DEF Driven, Goes
<1>2. \A k \in Jobs : Summaries'[k] = IF k = j THEN Summary(d) ELSE Summaries[k]
  BY <1>1 DEF Summaries
<1>3. \A k \in Jobs : Reported'[k] = IF k = j THEN d.result ELSE Reported[k]
  BY <1>1 DEF Reported
<1>4. Summaries' = [Summaries EXCEPT ![j] = Summary(d)]
  BY <1>2 DEF Summaries
<1>5. Reported' = [Reported EXCEPT ![j] = d.result]
  BY <1>3 DEF Reported
<1> QED BY <1>4, <1>5

\* A request leaves the items of the library as they were filed.
LEMMA LibraryUnchanged == ASSUME UNCHANGED media PROVE Filed' = Filed
BY DEF media, Filed

\* A step that only moves containers, turns or requests is not seen.
LEMMA HiddenStep ==
  ASSUME Driven, NEW j \in Jobs, NEW d, Goes(j, d), UNCHANGED media,
         Summary(d) = Summary(call[j]), d.result = call[j].result
  PROVE  PStep
<1>1. Summaries' = [Summaries EXCEPT ![j] = Summaries[j]]
  BY GoingIsSummarised DEF Summaries
<1>2. Reported' = [Reported EXCEPT ![j] = Reported[j]]
  BY GoingIsSummarised DEF Reported
<1>3. Summaries' = Summaries BY <1>1 DEF Summaries
<1>4. Reported' = Reported BY <1>2 DEF Reported
<1> QED BY <1>3, <1>4, LibraryUnchanged DEF PStep, Posting!vars

\* A call that goes on, seen from outside.
LEMMA GoingOnContinues ==
  ASSUME Driven, NEW j \in Jobs, NEW d, Goes(j, d),
         d.at \notin {"idle", "done"}, d.result = call[j].result
  PROVE  Posting!Continues(j, Summary(d))
<1>2. Summaries' = [Summaries EXCEPT ![j] = Summary(d)] BY GoingIsSummarised
<1>3. Reported' = [Reported EXCEPT ![j] = Reported[j]]
  BY GoingIsSummarised DEF Reported
<1>4. Reported' = Reported BY <1>3 DEF Reported
<1> QED BY <1>2, <1>4 DEF Posting!Continues

\* A call that ends with what it may tell.
LEMMA EndingReports ==
  ASSUME Driven, NEW j \in Jobs, NEW c \in Call, NEW result \in Classes \cup {"ok"},
         Told(c, result), c.posts <= 1, Ends(j, c, result)
  PROVE  Posting!Ends(j, Summary(c))
<1>1. PICK d : d = [c EXCEPT !.at = "done", !.result = result, !.made = <<>>, !.turn = 0]
  OBVIOUS
<1>2. Goes(j, d) BY <1>1 DEF Ends
<1>3. /\ d.at = "done" /\ d.result = result /\ d.kind = c.kind /\ d.items = c.items
      /\ d.shown = c.shown /\ d.posts = c.posts /\ d.acked = c.acked
  BY <1>1 DEF Call
<1>4. Summary(d) = [Summary(c) EXCEPT !.at = "done"] BY <1>3 DEF Summary
<1>5. Posting!Agrees(Summary(c), result)
  <2>1. Summary(c).shape # "other" => c.kind \in Publishing BY DEF Summary, Shape, Publishing
  <2> QED BY <2>1 DEF Posting!Agrees, Summary, Told
<1>6. Summaries' = [Summaries EXCEPT ![j] = Summary(d)] BY <1>2, GoingIsSummarised
<1>7. Reported' = [Reported EXCEPT ![j] = result] BY <1>2, <1>3, GoingIsSummarised
<1>8. Reported'[j] = result BY <1>7 DEF Reported
<1> QED BY <1>4, <1>5, <1>6, <1>7, <1>8 DEF Posting!Ends

\* No call is seen as no call.
LEMMA IdleIsSummarised == Summary(NoCall) = Posting!NoCall /\ NoCall.result = "none"
<1>1. /\ NoCall.at = "idle" /\ NoCall.items = <<>> /\ NoCall.shown = <<>> /\ NoCall.posts = 0
      /\ NoCall.acked = FALSE /\ NoCall.result = "none" /\ NoCall.kind = "none"
  BY DEF NoCall
<1>2. Shape(NoCall.kind) = "other" BY <1>1 DEF Shape
<1> QED BY <1>1, <1>2 DEF Summary, Posting!NoCall

\* A call under way that posts nothing more may end with any result it may tell.
LEMMA EndingFinishes ==
  ASSUME Driven, NEW j \in Jobs, call[j].at \notin {"idle", "done"}, UNCHANGED media,
         NEW result \in Classes \cup {"ok"}, Told(call[j], result), Ends(j, call[j], result)
  PROVE  PStep
<1>1. PICK c \in Call : c = call[j] /\ c.posts <= 1 BY DEF Driven, Sound
<1>2. Posting!Ends(j, Summary(c)) BY <1>1, EndingReports
<1>3. Summaries[j] = Summary(c) /\ Summary(c).at = "open" BY <1>1 DEF Summaries, Summary
<1>4. Posting!Finish(j) BY <1>2, <1>3, LibraryUnchanged DEF Posting!Finish
<1> QED BY <1>4 DEF PStep, Posting!Next

\* A call that has not posted may fail in any way.
LEMMA FailingFinishes ==
  ASSUME Driven, NEW j \in Jobs, call[j].at \notin {"idle", "permalink", "done"},
         NEW result \in Classes, result # "ok", Ends(j, call[j], result), UNCHANGED media
  PROVE  PStep
<1>1. Told(call[j], result) BY DEF Driven, Placed, Told
<1> QED BY <1>1, EndingFinishes

\* Execute asks, and may refuse at once.
LEMMA ExecuteAsks ==
  ASSUME Driven, NEW j \in Jobs, NEW kind \in Publishing \cup Reading \cup {"other"},
         NEW items \in Payloads, Execute(j, kind, items), UNCHANGED media
  PROVE  PStep
<1>1. PICK c : c = Begun(kind, items) OBVIOUS
<1>2. /\ c.at = IF kind \in Publishing THEN "create" ELSE "read"
      /\ c.kind = kind /\ c.items = items /\ c.shown = <<>> /\ c.posts = 0 /\ c.acked = FALSE
      /\ c.result = "none"
  BY <1>1 DEF Begun, NoCall
<1>3. c \in Call
  <2>1. items \in Seq(Assets) BY DriverAssumption DEF DriverAssumption
  <2>2. <<>> \in Seq(Container) /\ <<>> \in Seq(Contents \cup {Nothing}) BY EmptySeq
  <2> QED BY <1>1, <2>1, <2>2 DEF Begun, Call, NoCall
<1>4. call[j].at = "idle" /\ call[j].result = "none"
  BY DEF Execute, Driven, Placed
<1> PICK shape \in {"post", "story", "other"} :
        shape = Shape(kind) /\ (shape # "other" => kind \in Publishing)
  BY DEF Shape, Publishing
<1>5. Summary(c) = Posting!Asked(shape, items)
  <2>1. (c.at \in {"idle", "done"}) = FALSE
    <3>1. ~(c.at \in {"idle", "done"}) BY <1>2
    <3> QED BY <3>1
  <2> QED BY <1>2, <2>1 DEF Summary, Posting!Asked
<1>6. Summaries[j].at = "idle" BY <1>4 DEF Summaries, Summary
<1>7. ASSUME Goes(j, c), kind \in Publishing => items # <<>> PROVE PStep
  <2>1. Posting!Continues(j, Summary(c)) BY <1>2, <1>4, <1>7, GoingOnContinues
  <2>2. Summaries'[j] = Posting!Asked(shape, items)
    BY <1>5, <2>1 DEF Summaries, Posting!Continues
  <2>3. shape # "other" => items # <<>> BY <1>7
  <2>4. Posting!Ask(j)
    BY <1>5, <1>6, <2>1, <2>2, <2>3, LibraryUnchanged DEF Posting!Ask, Posting!Asked
  <2> QED BY <2>4 DEF PStep, Posting!Next
<1>8. ASSUME NEW why \in {"invalid_input", "token_dead", "proxy_error"}, Ends(j, c, why) PROVE PStep
  <2>1. why \in Classes /\ Told(c, why) BY <1>2, <1>8 DEF Classes, Verdict, Told
  <2>2. Posting!Ends(j, Summary(c)) BY <1>2, <1>3, <1>8, <2>1, EndingReports
  <2>3. Summaries'[j] = [Posting!Asked(shape, items) EXCEPT !.at = "done"]
    BY <1>5, <2>2 DEF Summaries, Posting!Ends
  <2>4. Posting!Ask(j)
    BY <1>5, <1>6, <2>2, <2>3, LibraryUnchanged DEF Posting!Ask, Posting!Asked
  <2> QED BY <2>4 DEF PStep, Posting!Next
<1> QED BY <1>1, <1>7, <1>8 DEF Execute

\* What only prepares the post is not seen.
LEMMA PreparingIsHidden ==
  ASSUME Driven, NEW j \in Jobs, CreateMediaContainer(j) \/ WaitForContainer(j) \/ CreateCarousel(j),
         UNCHANGED media
  PROVE  PStep
<1> PICK c \in Call : c = call[j] BY DEF Driven
<1>0. c.at \in {"create", "poll", "parent"} /\ Summary(c).at = "open"
  BY DEF CreateMediaContainer, WaitForContainer, CreateCarousel, Summary
<1>1. ASSUME NEW f \in Failures, Ends(j, c, Verdict[f]) PROVE PStep
  BY <1>0, <1>1, VerdictIsClass, FailingFinishes
<1>2. ASSUME NEW result \in {"invalid_input", "account_error", "platform_outage"}, Ends(j, c, result)
      PROVE  PStep
  <2>1. result \in Classes BY <1>2 DEF Classes, Verdict
  <2> QED BY <1>0, <1>2, <2>1, FailingFinishes
<1>3. ASSUME NEW d, Goes(j, d), d.at \notin {"idle", "done"}, d.kind = c.kind, d.items = c.items,
             d.shown = c.shown, d.posts = c.posts, d.acked = c.acked, d.result = c.result
      PROVE  PStep
  <2>1. Summary(d) = Summary(c) BY <1>0, <1>3 DEF Summary
  <2> QED BY <1>3, <2>1, HiddenStep
<1>4. \A x : After(x) \notin {"idle", "done"} BY DEF After
<1>5. ASSUME NEW at, at \notin {"idle", "done"}, Goes(j, [c EXCEPT !.at = at]) PROVE PStep
  <2>1. PICK d : d = [c EXCEPT !.at = at] OBVIOUS
  <2>2. /\ d.at = at /\ d.kind = c.kind /\ d.items = c.items /\ d.shown = c.shown
        /\ d.posts = c.posts /\ d.acked = c.acked /\ d.result = c.result
    BY <2>1 DEF Call
  <2> QED BY <1>3, <1>5, <2>1, <2>2
<1>6. CASE CreateMediaContainer(j)
  <2>1. ASSUME NEW x, NEW at, at \notin {"idle", "done"}, NEW d, d = [c EXCEPT !.made = x, !.turn = 0],
               Goes(j, [d EXCEPT !.at = at])
        PROVE  PStep
    <3>1. PICK e : e = [d EXCEPT !.at = at] OBVIOUS
    <3>2. /\ e.at = at /\ e.kind = c.kind /\ e.items = c.items /\ e.shown = c.shown
          /\ e.posts = c.posts /\ e.acked = c.acked /\ e.result = c.result
      BY <2>1, <3>1 DEF Call
    <3> QED BY <1>3, <2>1, <3>1, <3>2
  <2>2. PICK d, x, y : /\ d = [c EXCEPT !.made = x, !.turn = 0]
                       /\ y = IF Kind(asset[ItemInTurn(c)].type) = "video" THEN "poll"
                              ELSE After(d)
                       /\ \/ \E f \in Failures : Ends(j, c, Verdict[f])
                          \/ Ends(j, c, "invalid_input")
                          \/ Goes(j, [d EXCEPT !.at = y])
    BY <1>6 DEF CreateMediaContainer
  <2>3. y \notin {"idle", "done"} BY <1>4, <2>2
  <2> QED BY <1>1, <1>2, <2>1, <2>2, <2>3
<1>7. CASE WaitForContainer(j)
  <2>1. ASSUME NEW turn, Goes(j, [c EXCEPT !.turn = turn]) PROVE PStep
    <3>1. PICK d : d = [c EXCEPT !.turn = turn] OBVIOUS
    <3>2. /\ d.at = c.at /\ d.kind = c.kind /\ d.items = c.items /\ d.shown = c.shown
          /\ d.posts = c.posts /\ d.acked = c.acked /\ d.result = c.result
      BY <3>1 DEF Call
    <3> QED BY <1>0, <1>3, <2>1, <3>1, <3>2
  <2> QED BY <1>1, <1>2, <1>4, <1>5, <1>7, <2>1 DEF WaitForContainer
<1>8. CASE CreateCarousel(j) BY <1>1, <1>5, <1>8 DEF CreateCarousel
<1> QED BY <1>6, <1>7, <1>8

\* The publication of the last container is the post.
LEMMA PublishingPosts ==
  ASSUME Inv, NEW j \in Jobs, PublishContainer(j), UNCHANGED media
  PROVE  PStep
<1> PICK c \in Call : c = call[j] BY DEF Inv, Driven
<1>0. /\ Driven /\ MediaTypeOK /\ c.at = "publish" /\ Sound(c) /\ c.posts = 0 /\ ~c.acked
      /\ c.kind \in Publishing /\ c.result = "none" /\ Len(c.made) = Due(c)
      /\ c.items \in Seq(Assets) /\ c.items # <<>>
  BY DEF Inv, MediaInv, Driven, PublishContainer, Placed, Call
<1>1. ASSUME NEW f \in Refusals \cup {"lost"}, Ends(j, c, Verdict[f]) PROVE PStep
  <2>1. f \in Failures BY DEF Failures
  <2> QED BY <1>0, <1>1, <2>1, VerdictIsClass, FailingFinishes
<1> DEFINE shown == [i \in 1 .. Due(c) |-> Filed[c.items[i]]]
           post(acked) == Posting!Posted(Shape(c.kind), c.items, shown, acked)
<1>2. /\ Summaries[j] = Summary(c) /\ Summary(c).items = c.items /\ Summary(c).at = "open"
      /\ Summary(c).shape = Shape(c.kind) /\ Summary(c).posts = 0
      /\ Shape(c.kind) # "other" /\ Posting!Due(Shape(c.kind), c.items) = Due(c)
  <2>1. Shape(c.kind) # "other" /\ Posting!Due(Shape(c.kind), c.items) = Due(c)
    BY <1>0 DEF Shape, Publishing, Posting!Due, Due
  <2> QED BY <1>0, <2>1 DEF Summaries, Summary
<1>3. ASSUME \A i \in 1 .. Len(c.made) : c.made[i].status = "finished"
      PROVE  /\ \A i \in 1 .. Due(c) : Filed[c.items[i]] # Nothing
             /\ \E d \in Call : /\ d = Posted(c) /\ d.posts = 1 /\ d.kind = c.kind /\ d.items = c.items
                                /\ d.acked = FALSE /\ d.result = "none" /\ d.shown = shown
                                /\ d.at = "publish"
  <2>1. PICK d \in Call : d = Posted(c) /\ d.posts = 1 /\ d.kind = c.kind /\ d.items = c.items
                          /\ d.acked = c.acked /\ d.result = "none"
    BY <1>0, <1>3, PostingIsSound
  <2>2. d.at = "publish" /\ d.shown = [i \in 1 .. Len(c.made) |-> c.made[i].content]
    <3>1. d = [c EXCEPT !.posts = c.posts + 1, !.shown = [i \in 1 .. Len(c.made) |-> c.made[i].content]]
      BY <2>1 DEF Posted
    <3> QED BY <1>0, <3>1 DEF Call
  <2>3. ASSUME NEW i \in 1 .. Due(c)
        PROVE  Filed[c.items[i]] # Nothing /\ c.made[i].content = Filed[c.items[i]]
    <3>1. i \in 1 .. Len(c.items) BY <1>0, DueBound
    <3>2. c.items[i] \in Assets BY <1>0, <3>1, ElementOfSeq
    <3>3. asset[c.items[i]].status # "none" /\ c.made[i].content = asset[c.items[i]].content
      BY <1>0, <1>3 DEF Sound, Made
    <3>4. asset[c.items[i]].content \in Contents BY <1>0, <3>2, <3>3 DEF MediaTypeOK
    <3> QED BY <3>2, <3>3, <3>4, MediaAssumption DEF Filed
  <2>4. d.shown = shown BY <1>0, <2>2, <2>3
  <2>5. d.acked = FALSE BY <1>0, <2>1 DEF Call
  <2> QED BY <2>1, <2>2, <2>3, <2>4, <2>5
<1>4. ASSUME NEW d, d.at \notin {"idle", "done"}, d.posts = 1, d.kind = c.kind, d.items = c.items,
             d.shown = shown, NEW acked \in BOOLEAN, d.acked = acked
      PROVE  Summary(d) = post(acked)
  <2>1. (d.at \in {"idle", "done"}) = FALSE
    <3>1. ~(d.at \in {"idle", "done"}) BY <1>4
    <3> QED BY <3>1
  <2> QED BY <1>4, <2>1 DEF Summary, Posting!Posted
<1>5. ASSUME \A i \in 1 .. Len(c.made) : c.made[i].status = "finished", NEW acked \in BOOLEAN,
             Posting!Continues(j, post(acked)) \/ Posting!Ends(j, post(acked))
      PROVE  PStep
  <2>1. \A i \in 1 .. Due(c) : Filed[c.items[i]] # Nothing BY <1>3, <1>5
  <2>2. Posting!Post(j, acked) BY <1>2, <1>5, <2>1, LibraryUnchanged DEF Posting!Post
  <2> QED BY <2>2 DEF PStep, Posting!Next
<1> HIDE DEF shown
<1>6. ASSUME \A i \in 1 .. Len(c.made) : c.made[i].status = "finished",
             NEW f \in {"unnamed", "lost"}, Ends(j, Posted(c), Verdict[f])
      PROVE  PStep
  <2>1. PICK d \in Call : /\ d = Posted(c) /\ d.posts = 1 /\ d.kind = c.kind /\ d.items = c.items
                          /\ d.acked = FALSE /\ d.shown = shown /\ d.at = "publish"
    BY <1>3, <1>6
  <2>2. Verdict[f] \in {"proxy_error", "invalid_input"} BY DEF Verdict
  <2>3. Verdict[f] \in Classes /\ Told(d, Verdict[f]) BY <2>1, <2>2 DEF Told, Classes, Verdict
  <2>4. Posting!Ends(j, Summary(d)) BY <1>0, <1>6, <2>1, <2>3, EndingReports
  <2>5. Summary(d) = post(FALSE) BY <1>4, <2>1
  <2> QED BY <1>5, <1>6, <2>4, <2>5
<1>7. ASSUME \A i \in 1 .. Len(c.made) : c.made[i].status = "finished",
             Ends(j, [Posted(c) EXCEPT !.acked = TRUE], "ok")
      PROVE  PStep
  <2>1. PICK d \in Call : /\ d = Posted(c) /\ d.posts = 1 /\ d.kind = c.kind /\ d.items = c.items
                          /\ d.shown = shown /\ d.at = "publish"
    BY <1>3, <1>7
  <2>2. PICK e : e = [d EXCEPT !.acked = TRUE] OBVIOUS
  <2>3. /\ e \in Call /\ e.posts = 1 /\ e.kind = c.kind /\ e.items = c.items /\ e.shown = shown
        /\ e.at = "publish" /\ e.acked = TRUE
    BY <2>1, <2>2 DEF Call
  <2>4. Told(e, "ok") BY <2>3 DEF Told
  <2>5. Ends(j, e, "ok") BY <1>7, <2>1, <2>2
  <2>6. Posting!Ends(j, Summary(e)) BY <1>0, <2>3, <2>4, <2>5, EndingReports
  <2>7. Summary(e) = post(TRUE) BY <1>4, <2>3
  <2> QED BY <1>5, <1>7, <2>6, <2>7
<1>8. ASSUME \A i \in 1 .. Len(c.made) : c.made[i].status = "finished",
             Goes(j, [Posted(c) EXCEPT !.acked = TRUE, !.at = "permalink"])
      PROVE  PStep
  <2>1. PICK d \in Call : /\ d = Posted(c) /\ d.posts = 1 /\ d.kind = c.kind /\ d.items = c.items
                          /\ d.shown = shown /\ d.result = "none"
    BY <1>3, <1>8
  <2>2. PICK e : e = [d EXCEPT !.acked = TRUE, !.at = "permalink"] OBVIOUS
  <2>3. /\ e.posts = 1 /\ e.kind = c.kind /\ e.items = c.items /\ e.shown = shown
        /\ e.at = "permalink" /\ e.acked = TRUE /\ e.result = "none"
    BY <2>1, <2>2 DEF Call
  <2>4. Goes(j, e) BY <1>8, <2>1, <2>2
  <2>5. Posting!Continues(j, Summary(e)) BY <1>0, <2>3, <2>4, GoingOnContinues
  <2>6. Summary(e) = post(TRUE) BY <1>4, <2>3
  <2> QED BY <1>5, <1>8, <2>5, <2>6
<1> QED BY <1>1, <1>6, <1>7, <1>8 DEF PublishContainer

\* Reads and permalinks post nothing.
LEMMA ReadingFinishes ==
  ASSUME Driven, NEW j \in Jobs, FetchPermalink(j) \/ Read(j) \/ Returns(j), UNCHANGED media
  PROVE  PStep
<1> PICK c \in Call : c = call[j] BY DEF Driven
<1>0. Sound(c) /\ Placed(c) BY DEF Driven
<1>1. CASE FetchPermalink(j)
  <2>1. Told(c, "ok") /\ Ends(j, c, "ok") /\ c.at = "permalink"
    BY <1>0, <1>1 DEF FetchPermalink, Placed, Told
  <2> QED BY <2>1, EndingFinishes
<1>2. CASE Read(j)
  <2>1. c.at = "read" /\ Told(c, "ok") BY <1>0, <1>2 DEF Read, Placed, Told
  <2>2. ASSUME NEW f \in Failures, Ends(j, c, Verdict[f]) PROVE PStep
    BY <2>1, <2>2, VerdictIsClass, FailingFinishes
  <2>3. CASE Ends(j, c, "ok") BY <2>1, <2>3, EndingFinishes
  <2>4. CASE Goes(j, [c EXCEPT !.turn = 1])
    <3>1. PICK d : d = [c EXCEPT !.turn = 1] OBVIOUS
    <3>2. /\ d.at = c.at /\ d.kind = c.kind /\ d.items = c.items /\ d.shown = c.shown
          /\ d.posts = c.posts /\ d.acked = c.acked /\ d.result = c.result
      BY <3>1 DEF Call
    <3>3. Summary(d) = Summary(c) BY <3>2 DEF Summary
    <3> QED BY <2>4, <3>1, <3>2, <3>3, HiddenStep
  <2> QED BY <1>2, <2>2, <2>3, <2>4 DEF Read
<1>3. CASE Returns(j)
  <2>1. Summary(NoCall) = Posting!NoCall /\ NoCall.result = "none" BY IdleIsSummarised
  <2>2. Summaries[j].at = "done" BY <1>3 DEF Returns, Summaries, Summary
  <2>3. /\ Summaries' = [Summaries EXCEPT ![j] = Posting!NoCall]
        /\ Reported' = [Reported EXCEPT ![j] = "none"]
    BY <1>3, <2>1, GoingIsSummarised DEF Returns
  <2>4. Posting!Return(j) BY <2>2, <2>3, LibraryUnchanged DEF Posting!Return
  <2> QED BY <2>4 DEF PStep, Posting!Next
<1> QED BY <1>1, <1>2, <1>3

\* What the platform does with a container is not seen.
LEMMA PlatformIsHidden ==
  ASSUME Driven, NEW j \in Jobs, NEW i, PlatformFetches(j, i) \/ PlatformExpires(j, i), UNCHANGED media
  PROVE  PStep
<1> PICK c \in Call : c = call[j] BY DEF Driven
<1>1. ASSUME NEW m, Turns(j, i, m) PROVE PStep
  <2>1. PICK d : d = [c EXCEPT !.made = [c.made EXCEPT ![i] = m]] OBVIOUS
  <2>2. /\ d.at = c.at /\ d.kind = c.kind /\ d.items = c.items /\ d.shown = c.shown
        /\ d.posts = c.posts /\ d.acked = c.acked /\ d.result = c.result
    BY <2>1 DEF Call
  <2>3. Summary(d) = Summary(c) BY <2>2 DEF Summary
  <2> QED BY <1>1, <2>1, <2>2, <2>3, HiddenStep DEF Turns
<1> QED BY <1>1 DEF PlatformFetches, PlatformExpires

\* What the library does is to file items for good.
LEMMA LibraryFiles ==
  ASSUME Inv, MediaNext, UNCHANGED call
  PROVE  PStep
<1>1. MediaTypeOK' /\ MediaTypeOK /\ MediaInv BY MediaInvNext DEF Inv, MediaInv
<1>2. Filed' \in [Assets -> Contents \cup {Nothing}] BY <1>1 DEF Filed, MediaTypeOK
<1>3. ASSUME NEW a \in Assets, Filed[a] # Nothing PROVE Filed'[a] = Filed[a]
  <2>1. asset[a].status # "none" BY <1>3 DEF Filed
  <2>2. asset'[a].status # "none" /\ asset'[a].content = asset[a].content
    BY <1>1, <2>1, ItemsKeepContent
  <2> QED BY <2>1, <2>2 DEF Filed
<1>4. Summaries' = Summaries /\ Reported' = Reported BY DEF Summaries, Reported
<1>5. Posting!File BY <1>2, <1>3, <1>4 DEF Posting!File
<1> QED BY <1>5 DEF PStep, Posting!Next

\* The driver beside the library implements one post per call, for any library,
\* jobs, payloads and errors: each request is that post or leaves it as it was.
THEOREM DriverPostsOnce == Spec => ImplementsPostOnce
<1>1. Init => Posting!Init
  <2> SUFFICES ASSUME Init PROVE Posting!Init OBVIOUS
  <2>1. Filed = [a \in Assets |-> Nothing] BY DEF Init, MediaInit, NoItem, Filed
  <2>2. Summary(NoCall) = Posting!NoCall /\ NoCall.result = "none" BY IdleIsSummarised
  <2>3. Summaries = [j \in Jobs |-> Posting!NoCall] /\ Reported = [j \in Jobs |-> "none"]
    BY <2>2 DEF Init, Summaries, Reported
  <2> QED BY <2>1, <2>3 DEF Posting!Init
<1>2. Inv /\ [Next]_vars => [Posting!Next]_(Posting!vars)
  <2> SUFFICES ASSUME Inv, [Next]_vars PROVE PStep BY DEF PStep
  <2>0. Driven BY DEF Inv
  <2>1. CASE MediaNext /\ UNCHANGED call BY <2>1, LibraryFiles
  <2>2. CASE DriverNext /\ UNCHANGED media
    BY <2>0, <2>2, ExecuteAsks, PreparingIsHidden, PublishingPosts, ReadingFinishes, PlatformIsHidden
       DEF DriverNext
  <2>3. CASE UNCHANGED vars
    <3>1. Filed' = Filed /\ Summaries' = Summaries /\ Reported' = Reported
      BY <2>3, LibraryUnchanged DEF vars, Summaries, Reported
    <3> QED BY <3>1 DEF PStep, Posting!vars
  <2> QED BY <2>1, <2>2, <2>3 DEF Next
<1> QED BY <1>1, <1>2, InvInit, InvNext, PTL DEF Spec, ImplementsPostOnce, Posting!Spec

=============================================================================

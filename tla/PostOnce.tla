------------------------------ MODULE PostOnce ------------------------------
(***************************************************************************)
(* What a call of the driver promises: it posts all the items it was asked *)
(* for, or of a story the first, as they are filed in the library, in one  *)
(* step and once at most, before it is over, and what it reports agrees    *)
(* with what it did.  There are no containers, downloads, polls or URLs    *)
(* here.  PlatformDriver implements it.                                    *)
(***************************************************************************)
EXTENDS Integers, Sequences

CONSTANTS Jobs, Items, Contents,
          Nothing,    \* the content of an item that does not exist yet
          Requests,   \* the lists of items that calls are asked to post
          Errors,     \* how a call may fail
          Uncertain   \* how it may fail although it has posted

VARIABLES
  filed,  \* the content of every item
  call,   \* per job, its call
  report  \* per job, the result of its call once it is over

vars == <<filed, call, report>>

NoCall == [at |-> "idle", shape |-> "other", items |-> <<>>, shown |-> <<>>, posts |-> 0,
           acked |-> FALSE]

Init == /\ filed = [a \in Items |-> Nothing]
        /\ call = [j \in Jobs |-> NoCall]
        /\ report = [j \in Jobs |-> "none"]

\* Items are filed, and keep their content for good.
File == /\ UNCHANGED <<call, report>>
        /\ filed' \in [Items -> Contents \cup {Nothing}]
        /\ \A a \in Items : filed[a] # Nothing => filed'[a] = filed[a]

\* What a call c may report.
Agrees(c, result) ==
  /\ c.acked => result = "ok"
  /\ c.shape # "other" /\ result = "ok" => c.posts = 1
  /\ c.posts = 1 /\ result # "ok" => result \in Uncertain

\* How many of its items a call shows.
Due(shape, items) == IF shape = "story" THEN 1 ELSE Len(items)

\* A call that has yet to post, and one that has.
Asked(shape, items) ==
  [at |-> "open", shape |-> shape, items |-> items, shown |-> <<>>, posts |-> 0,
   acked |-> FALSE]
Posted(shape, items, shown, acked) ==
  [at |-> "open", shape |-> shape, items |-> items, shown |-> shown, posts |-> 1,
   acked |-> acked]

\* The call goes on as c, or is over as c.
Continues(j, c) == call' = [call EXCEPT ![j] = c] /\ UNCHANGED report
Ends(j, c)      == /\ call' = [call EXCEPT ![j] = [c EXCEPT !.at = "done"]]
                   /\ report' = [report EXCEPT ![j] = report'[j]]
                   /\ report'[j] \in Errors \cup {"ok"} /\ Agrees(c, report'[j])

\* Whatever the call asks for, it may be over at once.
Ask(j) ==
  /\ call[j].at = "idle"
  /\ \E asked \in {call'[j]} :
       LET c == Asked(asked.shape, asked.items) IN
       /\ asked.shape \in {"post", "story", "other"} /\ asked.items \in Requests
       /\ \/ /\ asked.at = "open" /\ (c.shape # "other" => c.items # <<>>)
             /\ Continues(j, c)
          \/ asked.at = "done" /\ Ends(j, c)
  /\ UNCHANGED filed

\* Everything at once, and nothing that is not there.
Post(j, acked) ==
  LET shape == call[j].shape
      items == call[j].items
      due == 1 .. Due(shape, items)
      c == Posted(shape, items, [i \in due |-> filed[items[i]]], acked)
  IN /\ call[j].at = "open" /\ shape # "other" /\ call[j].posts = 0
     /\ \A i \in due : filed[items[i]] # Nothing
     /\ Continues(j, c) \/ Ends(j, c)
     /\ UNCHANGED filed

Finish(j) == call[j].at = "open" /\ Ends(j, call[j]) /\ UNCHANGED filed

Return(j) == /\ call[j].at = "done"
             /\ call' = [call EXCEPT ![j] = NoCall]
             /\ report' = [report EXCEPT ![j] = "none"]
             /\ UNCHANGED filed

Next ==
  \/ File
  \/ \E j \in Jobs :
       \/ Ask(j)
       \/ \E acked \in BOOLEAN : Post(j, acked)
       \/ Finish(j)
       \/ Return(j)

Spec == Init /\ [][Next]_vars
=============================================================================

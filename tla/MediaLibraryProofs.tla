------------------------- MODULE MediaLibraryProofs -------------------------
(***************************************************************************)
(* Proofs about MediaLibrary: its types, that live items keep their bytes, *)
(* and that a reclaim takes none of theirs.  What makes it work is the     *)
(* lock: who unlinks or closes a content holds its row, and a row that is  *)
(* held has no live item, for an ingest waits for the lock.                *)
(***************************************************************************)
EXTENDS MediaLibrary, TLAPS

\* What the fields of a request must be for its step.
Fits(r) ==
  /\ r.at \in {"put", "commit", "ensure"} => r.content \in Contents /\ r.type \in Types
  /\ r.at = "marked" => r.asset \in Assets
  /\ r.at \in {"unlink", "close"} => r.content \in Contents

LEMMA ServeIsTyped ==
  ASSUME MediaTypeOK, NEW p \in Clients, NEW r \in Request, Fits(r), Serve(p, r)
  PROVE  /\ op' \in [Clients -> Request] /\ \A q \in Clients : Fits(op'[q])
         /\ op'[p] = r /\ \A q \in Clients \ {p} : op'[q] = op[q]
<1>1. op' \in [Clients -> Request] /\ op'[p] = r /\ \A q \in Clients \ {p} : op'[q] = op[q]
  BY DEF Serve, MediaTypeOK
<1>2. \A q \in Clients : Fits(op[q]) BY DEF MediaTypeOK, Fits
<1> QED BY <1>1, <1>2

\* A deletion under way holds an item that is ready, alone.
Holding ==
  \A p \in Clients : op[p].at = "marked" =>
    /\ asset[op[p].asset].status = "ready"
    /\ \A q \in Clients \ {p} : ~(op[q].at = "marked" /\ op[q].asset = op[p].asset)

\* A table of contents in which one row is rewritten.
LEMMA ContentIsTyped ==
  ASSUME MediaTypeOK, NEW c \in Contents, NEW b \in Content
  PROVE  [blob EXCEPT ![c] = b] \in [Contents -> Content]
BY DEF MediaTypeOK

LEMMA IdleIsTyped == Idle \in Request /\ Fits(Idle)
BY DEF Idle, Request, Fits

\* What is left of a batch is a request.
LEMMA WithoutIsTyped ==
  ASSUME NEW batch \in SUBSET Contents, NEW c
  PROVE  /\ Without(batch, c) \in Request /\ Fits(Without(batch, c))
         /\ Without(batch, c).at \in {"idle", "reclaim"}
<1>1. batch \ {c} \in SUBSET Contents OBVIOUS
<1>2. [Idle EXCEPT !.at = "reclaim", !.batch = batch \ {c}] \in Request BY <1>1 DEF Idle, Request
<1> QED BY <1>2, IdleIsTyped DEF Without, Idle, Fits

LEMMA MediaTypeInit == MediaInit => MediaTypeOK
<1> SUFFICES ASSUME MediaInit PROVE MediaTypeOK OBVIOUS
<1>1. NoItem \in Item /\ NoItem.status = "none" BY DEF NoItem, Item
<1>2. NoBlob \in Content BY DEF NoBlob, Content
<1>3. \A p \in Clients : op[p] = Idle BY DEF MediaInit
<1>4. op \in [Clients -> Request] BY IdleIsTyped DEF MediaInit
<1>5. \A p \in Clients : Fits(op[p]) BY <1>3, IdleIsTyped
<1> QED BY <1>1, <1>2, <1>4, <1>5, MediaAssumption DEF MediaInit, MediaTypeOK, Fits, MediaAssumption

LEMMA IngestIsTyped ==
  ASSUME MediaTypeOK, NEW p \in Clients, IngestNext(p) PROVE MediaTypeOK'
<1>0. op[p] \in Request /\ Fits(op[p]) BY DEF MediaTypeOK, Fits
<1>1. ASSUME NEW c \in Contents, NEW t \in Types, NEW f \in Folders, IngestBegins(p, c, t, f)
      PROVE  MediaTypeOK'
  <2>0. [Idle EXCEPT !.at = "put", !.content = c, !.type = t, !.folder = f] \in Request
    BY DEF Idle, Request
  <2>1. PICK r \in Request : r = [Idle EXCEPT !.at = "put", !.content = c, !.type = t, !.folder = f]
    BY <2>0
  <2>2. Fits(r) BY <2>1 DEF Idle, Fits
  <2>3. op' \in [Clients -> Request] /\ \A q \in Clients : Fits(op'[q])
    BY <1>1, <2>1, <2>2, ServeIsTyped DEF IngestBegins
  <2> QED BY <1>1, <2>3 DEF IngestBegins, MediaTypeOK, Fits
<1>2. CASE IngestPuts(p)
  <2>1. PICK r \in Request : r = [op[p] EXCEPT !.at = "commit"] /\ Fits(r)
    BY <1>0, <1>2 DEF Request, Fits, IngestPuts
  <2>2. op' \in [Clients -> Request] /\ \A q \in Clients : Fits(op'[q])
    BY <1>2, <2>1, ServeIsTyped DEF IngestPuts
  <2>3. bytes' \subseteq Contents \X Types BY <1>0, <1>2 DEF IngestPuts, MediaTypeOK, Fits
  <2> QED BY <1>2, <2>2, <2>3 DEF IngestPuts, MediaTypeOK, Fits
<1>3. CASE IngestCommits(p)
  <2> DEFINE c == op[p].content
             f == op[p].folder
             t == op[p].type
  <2>1. c \in Contents /\ t \in Types /\ f \in folders /\ f \in Folders
    BY <1>0, <1>3 DEF IngestCommits, IngestCommitsUnlocked, Fits, MediaTypeOK
  <2>r. [op[p] EXCEPT !.at = "ensure"] \in Request BY <1>0 DEF Request
  <2>s. PICK r \in Request : r = [op[p] EXCEPT !.at = "ensure"] BY <2>r
  <2>2. Fits(r) BY <1>0, <2>1, <2>s DEF Request, Fits
  <2>3. op' \in [Clients -> Request] /\ \A q \in Clients : Fits(op'[q])
    BY <1>3, <2>s, <2>2, ServeIsTyped DEF IngestCommits, IngestCommitsUnlocked
  <2>4. blob' \in [Contents -> Content]
    <3>1. blob[c] \in Content BY <2>1 DEF MediaTypeOK
    <3>2. Registered(blob[c], t) \in Content BY <2>1, <3>1 DEF Registered, Content
    <3> QED BY <1>3, <2>1, <3>2, ContentIsTyped DEF IngestCommits, IngestCommitsUnlocked
  <2>5. asset' \in [Assets -> Item] /\ \A a \in Assets : asset'[a].status # "none" => asset'[a].content \in Contents
    <3>1. CASE UNCHANGED asset BY <3>1 DEF MediaTypeOK
    <3>2. ASSUME NEW a \in Assets,
                 asset' = [asset EXCEPT ![a] = [status |-> "ready", folder |-> f, content |-> c, type |-> t]]
          PROVE  asset' \in [Assets -> Item] /\ \A b \in Assets : asset'[b].status # "none" => asset'[b].content \in Contents
      <4>1. PICK i \in Item : i = [status |-> "ready", folder |-> f, content |-> c, type |-> t]
        BY <2>1 DEF Item
      <4>2. i.content = c BY <4>1
      <4> QED BY <2>1, <3>2, <4>1, <4>2 DEF MediaTypeOK
    <3> QED BY <1>3, <3>1, <3>2 DEF IngestCommits, IngestCommitsUnlocked
  <2> QED BY <1>3, <2>3, <2>4, <2>5 DEF IngestCommits, IngestCommitsUnlocked, MediaTypeOK, Fits
<1>4. CASE IngestEnsures(p)
  <2>1. op' \in [Clients -> Request] /\ \A q \in Clients : Fits(op'[q])
    BY <1>4, IdleIsTyped, ServeIsTyped DEF IngestEnsures
  <2>2. bytes' \subseteq Contents \X Types BY <1>0, <1>4 DEF IngestEnsures, MediaTypeOK, Fits
  <2> QED BY <1>4, <2>1, <2>2 DEF IngestEnsures, MediaTypeOK, Fits
<1> QED BY <1>1, <1>2, <1>3, <1>4 DEF IngestNext

LEMMA RemovalIsTyped ==
  ASSUME MediaTypeOK, Holding, NEW p \in Clients, RemovalNext(p) PROVE MediaTypeOK'
<1>0. op[p] \in Request /\ Fits(op[p]) BY DEF MediaTypeOK, Fits
<1>1. op[p].batch \in SUBSET Contents BY <1>0 DEF Request
<1>2. ASSUME NEW r \in Request, Fits(r), Serve(p, r), NEW b \in [Contents -> Content], blob' = b,
             NEW t \in SUBSET (Contents \X Types), torn' = t, bytes' \subseteq bytes,
             UNCHANGED <<folders, asset>>
      PROVE  MediaTypeOK'
  <2>1. op' \in [Clients -> Request] /\ \A q \in Clients : Fits(op'[q]) BY <1>2, ServeIsTyped
  <2> QED BY <1>2, <2>1 DEF MediaTypeOK, Fits
<1>3. torn \in SUBSET (Contents \X Types) /\ blob \in [Contents -> Content] BY DEF MediaTypeOK
<1>4. ASSUME NEW a \in Assets, DeleteMarks(p, a) PROVE MediaTypeOK'
  <2> DEFINE orphan == Live(asset[a].content) = {a}
  <2>1. asset[a].content \in Contents /\ orphan \in BOOLEAN BY <1>4 DEF DeleteMarks, MediaTypeOK
  <2>2. Serve(p, [Idle EXCEPT !.at = "marked", !.asset = a, !.content = asset[a].content, !.orphan = orphan])
    BY <1>4 DEF DeleteMarks
  <2> HIDE DEF orphan
  <2>3. [Idle EXCEPT !.at = "marked", !.asset = a, !.content = asset[a].content, !.orphan = orphan]
          \in Request
    BY <2>1 DEF Idle, Request
  <2>4. PICK r \in Request :
          r = [Idle EXCEPT !.at = "marked", !.asset = a, !.content = asset[a].content, !.orphan = orphan]
    BY <2>3
  <2>5. Fits(r) BY <2>4 DEF Idle, Fits
  <2> QED BY <1>2, <1>3, <1>4, <2>2, <2>4, <2>5 DEF DeleteMarks
<1>5. CASE DeleteCommits(p)
  <2> DEFINE a == op[p].asset
             c == asset[a].content
  <2>1. a \in Assets /\ asset[a].status = "ready" BY <1>0, <1>5 DEF DeleteCommits, Fits, Holding
  <2>2. asset[a] \in Item /\ c \in Contents BY <2>1 DEF MediaTypeOK
  <2>r. [asset[a] EXCEPT !.status = "deleted"] \in Item BY <2>2 DEF Item
  <2>s. PICK i \in Item : i = [asset[a] EXCEPT !.status = "deleted"] BY <2>r
  <2>3. i.content = c BY <2>2, <2>s DEF Item
  <2>4. /\ asset' \in [Assets -> Item]
        /\ \A b \in Assets : asset'[b].status # "none" => asset'[b].content \in Contents
    <3>1. asset' = [asset EXCEPT ![a] = i] BY <1>5, <2>s DEF DeleteCommits
    <3> QED BY <2>1, <2>2, <2>3, <3>1 DEF MediaTypeOK
  <2>5. \E r \in Request, b \in [Contents -> Content] : Fits(r) /\ Serve(p, r) /\ blob' = b
    <3>1. blob[c] \in Content BY <2>2 DEF MediaTypeOK
    <3>2. [blob[c] EXCEPT !.state = "pending_delete"] \in Content BY <3>1 DEF Content
    <3>3. [blob EXCEPT ![c] = [blob[c] EXCEPT !.state = "pending_delete"]] \in [Contents -> Content]
      BY <2>2, <3>2, ContentIsTyped
    <3>4. {c} \in SUBSET Contents BY <2>2
    <3>r. [Idle EXCEPT !.at = "reclaim", !.batch = {c}] \in Request BY <3>4 DEF Idle, Request
    <3>s. PICK r \in Request : r = [Idle EXCEPT !.at = "reclaim", !.batch = {c}] BY <3>r
    <3>5. Fits(r) BY <3>s DEF Idle, Fits
    <3>6. CASE ~op[p].orphan BY <1>3, <1>5, <3>6, IdleIsTyped DEF DeleteCommits
    <3>7. CASE op[p].orphan BY <1>5, <3>3, <3>s, <3>5, <3>7 DEF DeleteCommits
    <3> QED BY <3>6, <3>7
  <2>6. op' \in [Clients -> Request] /\ \A q \in Clients : Fits(op'[q]) BY <2>5, ServeIsTyped
  <2>7. blob' \in [Contents -> Content] BY <2>5
  <2> QED BY <1>5, <2>4, <2>6, <2>7 DEF DeleteCommits, MediaTypeOK, Fits
<1>6. ASSUME NEW batch \in SUBSET Pending, Collects(p, batch) PROVE MediaTypeOK'
  <2>1. batch \in SUBSET Contents BY DEF Pending
  <2>2. [Idle EXCEPT !.at = "reclaim", !.batch = batch] \in Request BY <2>1 DEF Idle, Request
  <2>3. PICK r \in Request : r = [Idle EXCEPT !.at = "reclaim", !.batch = batch] BY <2>2
  <2>4. Fits(r) BY <2>3 DEF Idle, Fits
  <2> QED BY <1>2, <1>3, <1>6, <2>3, <2>4 DEF Collects
<1>7. ASSUME NEW c \in Contents, ReclaimLocks(p, c) PROVE MediaTypeOK'
  <2>1. blob[c] \in Content BY DEF MediaTypeOK
  <2>2. [blob[c] EXCEPT !.state = "ready"] \in Content /\ [blob[c] EXCEPT !.lock = p] \in Content
    BY <2>1 DEF Content
  <2>3. /\ [blob EXCEPT ![c] = [blob[c] EXCEPT !.state = "ready"]] \in [Contents -> Content]
        /\ [blob EXCEPT ![c] = [blob[c] EXCEPT !.lock = p]] \in [Contents -> Content]
    BY <2>2, ContentIsTyped
  <2>4. Without(op[p].batch, c) \in Request /\ Fits(Without(op[p].batch, c))
    BY <1>1, WithoutIsTyped
  <2>r. [op[p] EXCEPT !.at = "unlink", !.content = c] \in Request BY <1>0 DEF Request
  <2>s. PICK r \in Request : r = [op[p] EXCEPT !.at = "unlink", !.content = c] BY <2>r
  <2>5. Fits(r) BY <1>0, <2>s DEF Request, Fits
  <2>6. \E r2 \in Request, b \in [Contents -> Content] : Fits(r2) /\ Serve(p, r2) /\ blob' = b
    BY <1>3, <1>7, <2>3, <2>4, <2>s, <2>5 DEF ReclaimLocks
  <2> QED BY <1>2, <1>3, <1>7, <2>6 DEF ReclaimLocks
<1>8. CASE ReclaimUnlinks(p)
  <2>1. PICK r \in Request : r = [op[p] EXCEPT !.at = "close"] /\ Fits(r)
    BY <1>0, <1>8 DEF Request, Fits, ReclaimUnlinks
  <2> QED BY <1>2, <1>3, <1>8, <2>1 DEF ReclaimUnlinks
<1>9. CASE ReclaimCloses(p) \/ ReclaimRefused(p)
  <2> DEFINE c == op[p].content
  <2>1. c \in Contents BY <1>0, <1>9 DEF Fits, ReclaimCloses, ReclaimRefused
  <2>2. blob[c] \in Content BY <2>1 DEF MediaTypeOK
  <2>3. [blob[c] EXCEPT !.lock = Nothing] \in Content /\ NoBlob \in Content
    BY <2>2 DEF Content, NoBlob
  <2>4. blob' \in [Contents -> Content]
    BY <1>9, <2>1, <2>3, ContentIsTyped DEF ReclaimCloses, ReclaimRefused
  <2>5. Without(op[p].batch, c) \in Request /\ Fits(Without(op[p].batch, c))
    BY <1>1, WithoutIsTyped
  <2> QED BY <1>2, <1>3, <1>9, <2>4, <2>5 DEF ReclaimCloses, ReclaimRefused
<1>10. CASE Fails(p)
  <2>1. ASSUME NEW c \in Contents PROVE blob'[c] \in Content
    <3>1. blob[c] \in Content BY DEF MediaTypeOK
    <3>2. [blob[c] EXCEPT !.lock = Nothing] \in Content BY <3>1 DEF Content
    <3> QED BY <1>10, <3>1, <3>2 DEF Fails
  <2>2. blob' \in [Contents -> Content] BY <1>10, <2>1 DEF Fails
  <2>3. torn' \in SUBSET (Contents \X Types) BY <1>0, <1>3, <1>10 DEF Fails, Fits
  <2> QED BY <1>2, <1>10, <2>2, <2>3, IdleIsTyped DEF Fails
<1> QED BY <1>4, <1>5, <1>6, <1>7, <1>8, <1>9, <1>10 DEF RemovalNext

\* An item that changes folder is still an item, of the same content, type and
\* status.
LEMMA MovingIsTyped ==
  ASSUME MediaTypeOK, NEW a \in Assets, NEW f \in Folders, MoveAsset(a, f)
  PROVE  /\ MediaTypeOK'
         /\ \A b \in Assets : /\ asset'[b].status = asset[b].status
                             /\ asset'[b].content = asset[b].content
                             /\ asset'[b].type = asset[b].type
<1>1. asset[a] \in Item BY DEF MediaTypeOK
<1>r. [asset[a] EXCEPT !.folder = f] \in Item BY <1>1 DEF Item
<1>s. PICK i \in Item : i = [asset[a] EXCEPT !.folder = f] BY <1>r
<1>2. i.content = asset[a].content /\ i.status = asset[a].status /\ i.type = asset[a].type
  BY <1>1, <1>s DEF Item
<1>3. asset' = [asset EXCEPT ![a] = i] /\ asset' \in [Assets -> Item]
  BY <1>s DEF MoveAsset, MediaTypeOK
<1>4. \A b \in Assets : /\ asset'[b].status = asset[b].status
                       /\ asset'[b].content = asset[b].content
                       /\ asset'[b].type = asset[b].type
  BY <1>2, <1>3 DEF MediaTypeOK
<1> QED BY <1>3, <1>4 DEF MoveAsset, MediaTypeOK

LEMMA MediaTypeNext == MediaTypeOK /\ Holding /\ [MediaNext]_media => MediaTypeOK'
<1> SUFFICES ASSUME MediaTypeOK, Holding, [MediaNext]_media PROVE MediaTypeOK' OBVIOUS
<1>1. CASE FolderNext
  BY <1>1 DEF FolderNext, CreateFolder, DeleteFolder, MediaTypeOK
<1>2. CASE UNCHANGED media BY <1>2 DEF media, MediaTypeOK
<1> QED BY <1>1, <1>2, MovingIsTyped, IngestIsTyped, RemovalIsTyped DEF MediaNext

-----------------------------------------------------------------------------
(* Rows, locks and bytes.                                                  *)

\* A content that has an item has a row.
Rows == \A a \in Assets : asset[a].status # "none" => blob[asset[a].content].state # "none"

\* Who unlinks or closes a content holds its row, and a row that is held has no
\* live item.
Locks ==
  /\ \A p \in Clients : op[p].at \in {"unlink", "close"} => blob[op[p].content].lock = p
  /\ \A c \in Contents : blob[c].lock # Nothing => Live(c) = {}

\* What may be said in place of the bytes of a content.
Excused(c) ==
  \/ \E p \in Clients : op[p].at = "ensure" /\ <<op[p].content, op[p].type>> = Key(c)
  \/ Key(c) \in torn
  \/ \A a \in Live(c) : asset[a].type # blob[c].type

MediaInv == MediaTypeOK /\ Holding /\ Rows /\ Locks /\ LiveHasBytes

LEMMA MediaInvInit == MediaInit => MediaInv
<1> SUFFICES ASSUME MediaInit PROVE MediaInv OBVIOUS
<1>1. \A p \in Clients : op[p].at = "idle" BY DEF MediaInit, Idle
<1>2. \A a \in Assets : asset[a].status = "none" BY DEF MediaInit, NoItem
<1>3. \A c \in Contents : Live(c) = {} /\ blob[c].lock = Nothing
  BY <1>2 DEF MediaInit, NoBlob, Live
<1>4. Holding BY <1>1 DEF Holding
<1>5. Rows BY <1>2 DEF Rows
<1>6. Locks BY <1>1, <1>3 DEF Locks
<1>7. LiveHasBytes BY <1>3 DEF LiveHasBytes
<1> QED BY <1>4, <1>5, <1>6, <1>7, MediaTypeInit DEF MediaInv

\* Items keep their status, content and type: the contents keep their live items.
LEMMA SameLive ==
  ASSUME NEW c, \A a \in Assets : /\ asset'[a].status = asset[a].status
                                  /\ asset'[a].content = asset[a].content
  PROVE  Live(c)' = Live(c)
BY DEF Live

\* A step that leaves items and contents alone, takes no bytes and no excuse,
\* and whose client was and is neither ensuring, deleting nor under a lock.
LEMMA QuietStep ==
  ASSUME MediaInv, NEW p \in Clients, NEW r \in Request, Fits(r), Serve(p, r),
         op[p].at # "ensure", r.at \notin {"marked", "unlink", "close"},
         UNCHANGED <<asset, blob, torn>>, bytes \subseteq bytes'
  PROVE  (Holding /\ Rows /\ Locks /\ LiveHasBytes)'
<1>1. op'[p] = r /\ \A q \in Clients \ {p} : op'[q] = op[q] BY ServeIsTyped DEF MediaInv
<1>2. Holding' BY <1>1 DEF MediaInv, Holding
<1>3. Rows' BY DEF MediaInv, Rows
<1>4. Locks' BY <1>1 DEF MediaInv, Locks, Live
<1>5. LiveHasBytes'
  <2> SUFFICES ASSUME NEW c \in Contents, Live(c) # {}, Key(c) \notin bytes'
               PROVE  \/ \E q \in Clients : op'[q].at = "ensure" /\ <<op'[q].content, op'[q].type>> = Key(c)
                      \/ Key(c) \in torn
                      \/ \A a \in Live(c) : asset[a].type # blob[c].type
    BY DEF LiveHasBytes, Live, Key
  <2>1. Excused(c) BY DEF MediaInv, LiveHasBytes, Excused
  <2>2. ASSUME NEW q \in Clients, op[q].at = "ensure", <<op[q].content, op[q].type>> = Key(c)
        PROVE  op'[q].at = "ensure" /\ <<op'[q].content, op'[q].type>> = Key(c)
    BY <1>1, <2>2
  <2> QED BY <2>1, <2>2 DEF Excused
<1> QED BY <1>2, <1>3, <1>4, <1>5

LEMMA IngestKeepsInv ==
  ASSUME MediaInv, NEW p \in Clients, IngestNext(p)
  PROVE  (Holding /\ Rows /\ Locks /\ LiveHasBytes)'
<1>0. MediaTypeOK /\ op[p] \in Request /\ Fits(op[p]) BY DEF MediaInv, MediaTypeOK, Fits
<1>1. ASSUME NEW c \in Contents, NEW t \in Types, NEW f \in Folders, IngestBegins(p, c, t, f)
      PROVE  (Holding /\ Rows /\ Locks /\ LiveHasBytes)'
  <2>1. [Idle EXCEPT !.at = "put", !.content = c, !.type = t, !.folder = f] \in Request
    BY DEF Idle, Request
  <2>2. PICK r \in Request : r = [Idle EXCEPT !.at = "put", !.content = c, !.type = t, !.folder = f]
    BY <2>1
  <2>3. Fits(r) /\ r.at = "put" BY <2>2 DEF Idle, Fits
  <2> QED BY <1>1, <2>2, <2>3, QuietStep DEF IngestBegins
<1>2. CASE IngestPuts(p)
  <2>1. [op[p] EXCEPT !.at = "commit"] \in Request BY <1>0 DEF Request
  <2>2. PICK r \in Request : r = [op[p] EXCEPT !.at = "commit"] BY <2>1
  <2>3. Fits(r) /\ r.at = "commit" BY <1>0, <1>2, <2>2 DEF Request, Fits, IngestPuts
  <2> QED BY <1>2, <2>2, <2>3, QuietStep DEF IngestPuts
<1>3. CASE IngestCommits(p)
  <2>0. op[p].content \in Contents /\ op[p].type \in Types
    BY <1>0, <1>3 DEF IngestCommits, IngestCommitsUnlocked, Fits
  <2> PICK c \in Contents, t \in Types : c = op[p].content /\ t = op[p].type BY <2>0
  <2>1. op[p].at = "commit" /\ blob[c].lock = Nothing
    BY <1>3 DEF IngestCommits, IngestCommitsUnlocked, Free
  <2>2. [op[p] EXCEPT !.at = "ensure"] \in Request BY <1>0 DEF Request
  <2>3. PICK r \in Request : r = [op[p] EXCEPT !.at = "ensure"] BY <2>2
  <2>4. r.at = "ensure" /\ r.content = c /\ r.type = t /\ Fits(r) BY <1>0, <2>1, <2>3 DEF Request, Fits
  <2>5. op'[p] = r /\ \A q \in Clients \ {p} : op'[q] = op[q]
    BY <1>0, <1>3, <2>3, <2>4, ServeIsTyped DEF IngestCommits, IngestCommitsUnlocked
  <2>6. /\ \A d \in Contents \ {c} : blob'[d] = blob[d]
        /\ blob'[c].state = "ready" /\ blob'[c].lock = Nothing
        /\ blob'[c].type = IF blob[c].state = "none" THEN t ELSE blob[c].type
    <3>1. blob' = [blob EXCEPT ![c] = Registered(blob[c], t)]
      BY <1>3 DEF IngestCommits, IngestCommitsUnlocked
    <3>2. blob[c] \in Content BY <1>0, <2>1 DEF MediaTypeOK
    <3>3. blob'[c] = Registered(blob[c], t) /\ \A d \in Contents \ {c} : blob'[d] = blob[d]
      BY <1>0, <2>1, <3>1 DEF MediaTypeOK
    <3> QED BY <2>1, <3>2, <3>3 DEF Registered, Content
  <2>7. \A a \in Assets : \/ asset'[a] = asset[a]
                          \/ /\ asset[a].status = "none" /\ asset'[a].status = "ready"
                             /\ asset'[a].content = c /\ asset'[a].type = t
    <3>1. CASE UNCHANGED asset BY <3>1
    <3>2. ASSUME NEW a \in Assets, NEW f, asset[a].status = "none",
                 asset' = [asset EXCEPT ![a] = [status |-> "ready", folder |-> f, content |-> c, type |-> t]],
                 NEW b \in Assets
          PROVE  \/ asset'[b] = asset[b]
                 \/ /\ asset[b].status = "none" /\ asset'[b].status = "ready"
                    /\ asset'[b].content = c /\ asset'[b].type = t
      BY <1>0, <3>2 DEF MediaTypeOK
    <3> QED BY <1>3, <3>1, <3>2 DEF IngestCommits, IngestCommitsUnlocked
  <2>8. \A d \in Contents \ {c} : Live(d)' = Live(d) BY <2>7 DEF Live
  <2>9. \A a \in Live(c)' : (a \in Live(c) /\ asset'[a] = asset[a]) \/ asset'[a].type = t
    BY <2>7 DEF Live
  <2>10. Holding'
    <3>1. \A q \in Clients : op'[q].at = "marked" => op[q].at = "marked" /\ op'[q] = op[q]
      BY <2>4, <2>5
    <3>2. \A q \in Clients : op[q].at = "marked" => op[q].asset \in Assets BY <1>0 DEF MediaTypeOK
    <3> QED BY <2>7, <3>1, <3>2 DEF MediaInv, Holding
  <2>11. Rows'
    <3> SUFFICES ASSUME NEW a \in Assets, asset'[a].status # "none"
                 PROVE  blob'[asset'[a].content].state # "none"
      BY DEF Rows
    <3>1. CASE asset'[a] = asset[a]
      <4>1. asset[a].content \in Contents /\ blob[asset[a].content].state # "none"
        BY <1>0, <3>1 DEF MediaInv, MediaTypeOK, Rows
      <4> QED BY <2>6, <3>1, <4>1
    <3>2. CASE asset'[a] # asset[a] BY <2>6, <2>7, <3>2
    <3> QED BY <3>1, <3>2
  <2>12. Locks'
    <3>1. \A q \in Clients : op'[q].at \in {"unlink", "close"} =>
            q # p /\ op'[q] = op[q] /\ op[q].content \in Contents /\ blob[op[q].content].lock = q
      BY <1>0, <2>4, <2>5 DEF MediaInv, Locks, MediaTypeOK
    <3>2. \A q \in Clients : q # Nothing BY MediaAssumption DEF MediaAssumption
    <3>3. \A q \in Clients : op'[q].at \in {"unlink", "close"} => blob'[op'[q].content].lock = q
      BY <2>1, <2>6, <3>1, <3>2
    <3>4. \A d \in Contents : blob'[d].lock # Nothing => Live(d)' = {}
      BY <2>6, <2>8 DEF MediaInv, Locks
    <3> QED BY <3>3, <3>4 DEF Locks
  <2>13. LiveHasBytes'
    <3> SUFFICES ASSUME NEW d \in Contents, Live(d)' # {}, Key(d)' \notin bytes
                 PROVE  Excused(d)'
      BY <1>3 DEF LiveHasBytes, Excused, IngestCommits, IngestCommitsUnlocked
    <3>0. torn' = torn BY <1>3 DEF IngestCommits, IngestCommitsUnlocked
    <3>1. CASE d # c
      <4>1. Key(d)' = Key(d) /\ Live(d)' = Live(d) /\ blob'[d] = blob[d]
        BY <2>6, <2>8, <3>1 DEF Key
      <4>2. Excused(d) BY <4>1 DEF MediaInv, LiveHasBytes, Excused
      <4>3. ASSUME NEW q \in Clients, op[q].at = "ensure", <<op[q].content, op[q].type>> = Key(d)
            PROVE  op'[q].at = "ensure" /\ <<op'[q].content, op'[q].type>> = Key(d)'
        BY <2>1, <2>5, <4>1, <4>3
      <4>4. \A a \in Live(d) : asset'[a] = asset[a] BY <2>7 DEF Live
      <4> QED BY <3>0, <4>1, <4>2, <4>3, <4>4 DEF Excused
    <3>2. CASE d = c /\ blob'[c].type = t
      <4>1. Key(d)' = <<c, t>> BY <3>2 DEF Key
      <4> QED BY <2>4, <2>5, <4>1 DEF Excused
    <3>3. CASE d = c /\ blob'[c].type # t
      <4>1. blob[c].state # "none" /\ blob'[c].type = blob[c].type BY <2>6, <3>3
      <4>2. Key(d)' = Key(d) BY <3>3, <4>1 DEF Key
      <4>3. CASE \A a \in Live(d) : asset[a].type # blob[d].type
        <5>1. \A a \in Live(d)' : asset'[a].type # blob'[d].type BY <2>9, <3>3, <4>1, <4>3
        <5> QED BY <5>1 DEF Excused
      <4>4. CASE ~\A a \in Live(d) : asset[a].type # blob[d].type
        <5>1. Live(d) # {} BY <4>4
        <5>2. Excused(d) BY <4>2, <5>1 DEF MediaInv, LiveHasBytes, Excused
        <5>3. ASSUME NEW q \in Clients, op[q].at = "ensure", <<op[q].content, op[q].type>> = Key(d)
              PROVE  op'[q].at = "ensure" /\ <<op'[q].content, op'[q].type>> = Key(d)'
          BY <2>1, <2>5, <4>2, <5>3
        <5> QED BY <3>0, <4>2, <4>4, <5>2, <5>3 DEF Excused
      <4> QED BY <4>3, <4>4
    <3> QED BY <3>1, <3>2, <3>3
  <2> QED BY <2>10, <2>11, <2>12, <2>13
<1>4. CASE IngestEnsures(p)
  <2>1. op'[p] = Idle /\ \A q \in Clients \ {p} : op'[q] = op[q]
    BY <1>0, <1>4, IdleIsTyped, ServeIsTyped DEF IngestEnsures
  <2>2. op'[p].at = "idle" BY <2>1 DEF Idle
  <2>3. UNCHANGED <<asset, blob>> BY <1>4 DEF IngestEnsures
  <2>4. Holding' BY <2>1, <2>2, <2>3 DEF MediaInv, Holding
  <2>5. Rows' BY <2>3 DEF MediaInv, Rows
  <2>6. Locks' BY <2>1, <2>2, <2>3 DEF MediaInv, Locks, Live
  <2>7. LiveHasBytes'
    <3> SUFFICES ASSUME NEW c \in Contents, Live(c) # {}, Key(c) \notin bytes'
                 PROVE  Excused(c)'
      BY <2>3 DEF LiveHasBytes, Excused, Live, Key
    <3>1. Key(c)' = Key(c) /\ Live(c)' = Live(c) BY <2>3 DEF Key, Live
    <3>2. Key(c) \notin bytes /\ Key(c) # <<op[p].content, op[p].type>> BY <1>4 DEF IngestEnsures
    <3>3. Excused(c) BY <3>2 DEF MediaInv, LiveHasBytes, Excused
    <3>4. ASSUME NEW q \in Clients, op[q].at = "ensure", <<op[q].content, op[q].type>> = Key(c)
          PROVE  op'[q].at = "ensure" /\ <<op'[q].content, op'[q].type>> = Key(c)'
      BY <2>1, <3>1, <3>2, <3>4
    <3>5. Key(c) \in torn => Key(c)' \in torn' BY <1>4, <3>1, <3>2 DEF IngestEnsures
    <3> QED BY <2>3, <3>1, <3>3, <3>4, <3>5 DEF Excused
  <2> QED BY <2>4, <2>5, <2>6, <2>7
<1> QED BY <1>1, <1>2, <1>3, <1>4 DEF IngestNext

\* No item comes to life, and no bytes go that a live item needs: the excuses
\* that were good are still good.
LEMMA ShrinkingKeepsBytes ==
  ASSUME MediaInv, NEW p \in Clients, \A q \in Clients \ {p} : op'[q] = op[q],
         op[p].at = "ensure" => <<op[p].content, op[p].type>> \in torn', torn \subseteq torn',
         \A c \in Contents : Live(c)' \subseteq Live(c) /\ \A a \in Live(c) : asset'[a].type = asset[a].type,
         \A c \in Contents : Live(c)' # {} =>
           blob'[c].type = blob[c].type /\ (Key(c) \in bytes => Key(c) \in bytes')
  PROVE  LiveHasBytes'
<1> SUFFICES ASSUME NEW c \in Contents, Live(c)' # {}, Key(c)' \notin bytes'
             PROVE  Excused(c)'
  BY DEF LiveHasBytes, Excused
<1>1. Key(c)' = Key(c) /\ blob'[c].type = blob[c].type BY DEF Key
<1>2. Live(c) # {} /\ Key(c) \notin bytes BY <1>1
<1>3. Excused(c) BY <1>2 DEF MediaInv, LiveHasBytes, Excused
<1>4. ASSUME NEW q \in Clients, op[q].at = "ensure", <<op[q].content, op[q].type>> = Key(c)
      PROVE  Excused(c)'
  <2>1. CASE q = p BY <1>1, <1>4, <2>1 DEF Excused
  <2>2. CASE q # p BY <1>1, <1>4, <2>2 DEF Excused
  <2> QED BY <2>1, <2>2
<1>5. ASSUME \A a \in Live(c) : asset[a].type # blob[c].type PROVE Excused(c)'
  <2>1. \A a \in Live(c)' : asset'[a].type # blob'[c].type BY <1>1, <1>5
  <2> QED BY <2>1 DEF Excused
<1>6. Key(c) \in torn => Excused(c)' BY <1>1 DEF Excused
<1> QED BY <1>3, <1>4, <1>5, <1>6 DEF Excused

\* The items are left alone, and so are the rows but for their locks and states.
LEMMA DeletionKeepsInv ==
  ASSUME MediaInv, NEW p \in Clients, DeleteCommits(p)
  PROVE  (Holding /\ Rows /\ Locks /\ LiveHasBytes)'
<1>0. MediaTypeOK /\ op[p] \in Request /\ Fits(op[p]) BY DEF MediaInv, MediaTypeOK, Fits
<1>1. /\ op[p].at = "marked" /\ op[p].asset \in Assets /\ asset[op[p].asset].status = "ready"
      /\ asset[op[p].asset].content \in Contents
  BY <1>0 DEF DeleteCommits, Fits, MediaInv, Holding, MediaTypeOK
<1> PICK a \in Assets, c \in Contents : a = op[p].asset /\ c = asset[a].content BY <1>1
<1>2. /\ \A b \in Assets \ {a} : asset'[b] = asset[b]
      /\ asset'[a].status = "deleted" /\ asset'[a].content = c /\ asset'[a].type = asset[a].type
  <2>1. asset' = [asset EXCEPT ![a] = [asset[a] EXCEPT !.status = "deleted"]] BY DEF DeleteCommits
  <2>2. asset[a] \in Item BY <1>0 DEF MediaTypeOK
  <2>3. asset'[a] = [asset[a] EXCEPT !.status = "deleted"] BY <1>0, <2>1 DEF MediaTypeOK
  <2> QED BY <1>0, <2>1, <2>2, <2>3 DEF MediaTypeOK, Item
<1>3. /\ \A q \in Clients \ {p} : op'[q] = op[q]
      /\ op'[p].at \in {"idle", "reclaim"}
  <2>1. [Idle EXCEPT !.at = "reclaim", !.batch = {c}].at = "reclaim" BY DEF Idle
  <2>2. \E r : Serve(p, r) /\ r.at \in {"idle", "reclaim"} BY <2>1 DEF DeleteCommits, Idle
  <2> QED BY <1>0, <2>2 DEF Serve, MediaTypeOK
<1>4. \A d \in Contents : /\ blob'[d].type = blob[d].type /\ blob'[d].lock = blob[d].lock
                          /\ blob[d].state # "none" => blob'[d].state # "none"
  <2>1. CASE UNCHANGED blob BY <2>1
  <2>2. CASE blob' = [blob EXCEPT ![c] = [blob[c] EXCEPT !.state = "pending_delete"]]
    <3>1. blob[c] \in Content BY <1>0 DEF MediaTypeOK
    <3>2. blob'[c] = [blob[c] EXCEPT !.state = "pending_delete"] BY <1>0, <2>2 DEF MediaTypeOK
    <3>3. \A d \in Contents \ {c} : blob'[d] = blob[d] BY <1>0, <2>2 DEF MediaTypeOK
    <3> QED BY <3>1, <3>2, <3>3 DEF Content
  <2> QED BY <2>1, <2>2 DEF DeleteCommits
<1>5. \A d \in Contents : Live(d)' \subseteq Live(d) /\ \A b \in Live(d) : asset'[b].type = asset[b].type
  BY <1>2 DEF Live
<1>6. Holding'
  <2>1. \A q \in Clients : op'[q].at = "marked" => q # p /\ op'[q] = op[q] /\ op[q].asset \in Assets
    BY <1>0, <1>3 DEF MediaTypeOK
  <2>2. \A q \in Clients \ {p} : op[q].at = "marked" => op[q].asset # a
    BY <1>1 DEF MediaInv, Holding
  <2> QED BY <1>2, <2>1, <2>2 DEF MediaInv, Holding
<1>7. Rows'
  <2>1. \A b \in Assets : asset'[b].content = asset[b].content
                        /\ (asset'[b].status # "none" => asset[b].status # "none")
    BY <1>1, <1>2
  <2>2. \A b \in Assets : asset[b].status # "none" =>
          asset[b].content \in Contents /\ blob[asset[b].content].state # "none"
    BY <1>0 DEF MediaInv, Rows, MediaTypeOK
  <2> QED BY <1>4, <2>1, <2>2 DEF Rows
<1>8. Locks'
  <2>1. \A q \in Clients : op'[q].at \in {"unlink", "close"} =>
          op'[q] = op[q] /\ op[q].content \in Contents /\ blob[op[q].content].lock = q
    BY <1>0, <1>3 DEF MediaInv, Locks, MediaTypeOK
  <2> QED BY <1>4, <1>5, <2>1 DEF MediaInv, Locks
<1>9. UNCHANGED <<bytes, torn>> /\ op[p].at # "ensure" BY <1>1 DEF DeleteCommits
<1>10. LiveHasBytes' BY <1>3, <1>4, <1>5, <1>9, ShrinkingKeepsBytes
<1> QED BY <1>6, <1>7, <1>8, <1>10

LEMMA ReclaimKeepsInv ==
  ASSUME MediaInv, NEW p \in Clients,
         \/ \E c \in Contents : ReclaimLocks(p, c)
         \/ ReclaimUnlinks(p) \/ ReclaimCloses(p) \/ ReclaimRefused(p) \/ Fails(p)
  PROVE  (Holding /\ Rows /\ Locks /\ LiveHasBytes)'
<1>0. MediaTypeOK /\ op[p] \in Request /\ Fits(op[p]) BY DEF MediaInv, MediaTypeOK, Fits
<1>1. op[p].batch \in SUBSET Contents BY <1>0 DEF Request
<1>2. \A q \in Clients : q # Nothing BY MediaAssumption DEF MediaAssumption
<1>3. \A d \in Contents : blob[d] \in Content BY <1>0 DEF MediaTypeOK
\* What every one of these steps amounts to.
<1>4. ASSUME NEW r, Serve(p, r), r.at \notin {"marked", "ensure"}, UNCHANGED asset,
             r.at \in {"unlink", "close"} => r.content \in Contents /\ blob'[r.content].lock = p,
             \A q \in Clients \ {p}, d \in Contents : blob[d].lock = q => blob'[d].lock = q,
             \A d \in Contents : blob'[d].lock # Nothing => Live(d) = {},
             \A b \in Assets : asset[b].status # "none" =>
               /\ blob'[asset[b].content].state # "none"
               /\ blob'[asset[b].content].type = blob[asset[b].content].type,
             \A d \in Contents : Live(d) # {} => (Key(d) \in bytes => Key(d) \in bytes'),
             op[p].at = "ensure" => <<op[p].content, op[p].type>> \in torn', torn \subseteq torn'
      PROVE  (Holding /\ Rows /\ Locks /\ LiveHasBytes)'
  <2>1. op'[p] = r /\ \A q \in Clients \ {p} : op'[q] = op[q] BY <1>0, <1>4 DEF Serve, MediaTypeOK
  <2>2. Holding' BY <1>4, <2>1 DEF MediaInv, Holding
  <2>3. Rows' BY <1>4 DEF MediaInv, Rows
  <2>4. \A d \in Contents : Live(d)' = Live(d) BY <1>4, SameLive
  <2>5. Locks'
    <3>1. ASSUME NEW q \in Clients, op'[q].at \in {"unlink", "close"}
          PROVE  blob'[op'[q].content].lock = q
      <4>1. CASE q = p BY <1>4, <2>1, <3>1, <4>1
      <4>2. CASE q # p
        <5>1. op'[q] = op[q] /\ op[q].content \in Contents /\ blob[op[q].content].lock = q
          BY <1>0, <2>1, <3>1, <4>2 DEF MediaInv, Locks, MediaTypeOK
        <5> QED BY <1>4, <4>2, <5>1
      <4> QED BY <4>1, <4>2
    <3> QED BY <1>4, <2>4, <3>1 DEF Locks
  <2>6. \A d \in Contents : Live(d) # {} => blob'[d].type = blob[d].type BY <1>4 DEF Live
  <2>7. LiveHasBytes' BY <1>4, <2>1, <2>4, <2>6, ShrinkingKeepsBytes
  <2> QED BY <2>2, <2>3, <2>5, <2>7
<1>5. \A b \in Assets : asset[b].status # "none" =>
        asset[b].content \in Contents /\ blob[asset[b].content].state # "none"
  BY <1>0 DEF MediaInv, Rows, MediaTypeOK
\* The rows keep their types and, but for one, their locks.
<1>6. ASSUME NEW c \in Contents, NEW b, blob' = [blob EXCEPT ![c] = b],
             b.type = blob[c].type, b.state # "none" \/ ~Referenced(c), b.lock \in {p, Nothing},
             blob[c].lock \in {p, Nothing}, b.lock = p => Live(c) = {}
      PROVE  /\ \A q \in Clients \ {p}, d \in Contents : blob[d].lock = q => blob'[d].lock = q
             /\ \A d \in Contents : blob'[d].lock # Nothing => Live(d) = {}
             /\ \A a \in Assets : asset[a].status # "none" =>
                  /\ blob'[asset[a].content].state # "none"
                  /\ blob'[asset[a].content].type = blob[asset[a].content].type
             /\ blob'[c] = b
  <2>1. blob'[c] = b /\ \A d \in Contents \ {c} : blob'[d] = blob[d] BY <1>0, <1>6 DEF MediaTypeOK
  <2>2. \A a \in Assets : asset[a].status # "none" /\ asset[a].content = c => b.state # "none"
    BY <1>6 DEF Referenced
  <2> QED BY <1>2, <1>5, <1>6, <2>1, <2>2 DEF MediaInv, Locks
<1>7. ASSUME UNCHANGED blob
      PROVE  /\ \A q \in Clients \ {p}, d \in Contents : blob[d].lock = q => blob'[d].lock = q
             /\ \A d \in Contents : blob'[d].lock # Nothing => Live(d) = {}
             /\ \A a \in Assets : asset[a].status # "none" =>
                  /\ blob'[asset[a].content].state # "none"
                  /\ blob'[asset[a].content].type = blob[asset[a].content].type
  BY <1>5, <1>7 DEF MediaInv, Locks
<1>8. ASSUME NEW c \in Contents, ReclaimLocks(p, c)
      PROVE  (Holding /\ Rows /\ Locks /\ LiveHasBytes)'
  <2>1. /\ op[p].at = "reclaim" /\ blob[c].lock = Nothing /\ UNCHANGED <<asset, bytes, torn>>
    BY <1>8 DEF ReclaimLocks, Free
  <2>2. /\ Without(op[p].batch, c).at \in {"idle", "reclaim"} BY <1>1, WithoutIsTyped
  <2>3. CASE Serve(p, Without(op[p].batch, c)) /\ UNCHANGED blob
    BY <1>4, <1>7, <2>1, <2>2, <2>3
  <2>4. CASE Serve(p, Without(op[p].batch, c)) /\ blob' = [blob EXCEPT ![c] = [blob[c] EXCEPT !.state = "ready"]]
    <3>1. PICK b : b = [blob[c] EXCEPT !.state = "ready"] OBVIOUS
    <3>2. b.type = blob[c].type /\ b.state # "none" /\ b.lock = Nothing
      BY <1>3, <2>1, <3>1 DEF Content
    <3>3. /\ \A q \in Clients \ {p}, d \in Contents : blob[d].lock = q => blob'[d].lock = q
          /\ \A d \in Contents : blob'[d].lock # Nothing => Live(d) = {}
          /\ \A a \in Assets : asset[a].status # "none" =>
               /\ blob'[asset[a].content].state # "none"
               /\ blob'[asset[a].content].type = blob[asset[a].content].type
      BY <1>2, <1>6, <2>1, <2>4, <3>1, <3>2
    <3> QED BY <1>4, <2>1, <2>2, <2>4, <3>3
  <2>5. CASE /\ blob[c].state = "pending_delete" /\ Live(c) = {}
             /\ blob' = [blob EXCEPT ![c] = [blob[c] EXCEPT !.lock = p]]
             /\ Serve(p, [op[p] EXCEPT !.at = "unlink", !.content = c])
    <3>1. PICK b : b = [blob[c] EXCEPT !.lock = p] OBVIOUS
    <3>2. b.type = blob[c].type /\ b.state # "none" /\ b.lock = p
      BY <1>3, <2>5, <3>1 DEF Content
    <3>3. /\ \A q \in Clients \ {p}, d \in Contents : blob[d].lock = q => blob'[d].lock = q
          /\ \A d \in Contents : blob'[d].lock # Nothing => Live(d) = {}
          /\ \A a \in Assets : asset[a].status # "none" =>
               /\ blob'[asset[a].content].state # "none"
               /\ blob'[asset[a].content].type = blob[asset[a].content].type
          /\ blob'[c].lock = p
      BY <1>6, <2>1, <2>5, <3>1, <3>2
    <3>4. PICK r : r = [op[p] EXCEPT !.at = "unlink", !.content = c] OBVIOUS
    <3>5. r.at = "unlink" /\ r.content = c BY <1>0, <3>4 DEF Request
    <3> QED BY <1>4, <2>1, <2>5, <3>3, <3>4, <3>5
  <2> QED BY <1>8, <2>3, <2>4, <2>5 DEF ReclaimLocks
<1>9. CASE ReclaimUnlinks(p)
  <2>1. /\ op[p].at = "unlink" /\ op[p].content \in Contents /\ UNCHANGED <<asset, blob, torn>>
        /\ blob[op[p].content].lock = p /\ Live(op[p].content) = {}
    BY <1>0, <1>2, <1>9 DEF ReclaimUnlinks, Fits, MediaInv, Locks
  <2>2. \A d \in Contents : Live(d) # {} => (Key(d) \in bytes => Key(d) \in bytes')
    BY <1>9, <2>1 DEF ReclaimUnlinks, Key
  <2>3. PICK r : r = [op[p] EXCEPT !.at = "close"] OBVIOUS
  <2>4. r.at = "close" /\ r.content = op[p].content BY <1>0, <2>3 DEF Request
  <2> QED BY <1>4, <1>7, <1>9, <2>1, <2>2, <2>3, <2>4 DEF ReclaimUnlinks
<1>10. CASE ReclaimCloses(p) \/ ReclaimRefused(p)
  <2>1. /\ op[p].at \in {"unlink", "close"} /\ op[p].content \in Contents
        /\ blob[op[p].content].lock = p /\ UNCHANGED <<asset, bytes, torn>>
    BY <1>0, <1>10 DEF ReclaimCloses, ReclaimRefused, Fits, MediaInv, Locks
  <2> PICK c \in Contents : c = op[p].content BY <2>1
  <2>2. Without(op[p].batch, c).at \in {"idle", "reclaim"} BY <1>1, WithoutIsTyped
  <2>3. CASE blob' = [blob EXCEPT ![c] = [blob[c] EXCEPT !.lock = Nothing]] /\ Referenced(c)
    <3>1. PICK b : b = [blob[c] EXCEPT !.lock = Nothing] OBVIOUS
    <3>2. b.type = blob[c].type /\ b.state = blob[c].state /\ b.lock = Nothing
      BY <1>3, <3>1 DEF Content
    <3>3. b.state # "none" BY <1>5, <2>3, <3>2 DEF Referenced
    <3>4. /\ \A q \in Clients \ {p}, d \in Contents : blob[d].lock = q => blob'[d].lock = q
          /\ \A d \in Contents : blob'[d].lock # Nothing => Live(d) = {}
          /\ \A a \in Assets : asset[a].status # "none" =>
               /\ blob'[asset[a].content].state # "none"
               /\ blob'[asset[a].content].type = blob[asset[a].content].type
      BY <1>2, <1>6, <2>1, <2>3, <3>1, <3>2, <3>3
    <3> QED BY <1>4, <1>10, <2>1, <2>2, <3>4 DEF ReclaimCloses, ReclaimRefused
  <2>4. CASE ~Referenced(c)
    <3>1. \A d \in Contents \ {c} : blob'[d] = blob[d] /\ blob'[c].lock = Nothing
      <4>1. NoBlob.lock = Nothing /\ [blob[c] EXCEPT !.lock = Nothing].lock = Nothing
        BY <1>3 DEF NoBlob, Content
      <4>2. PICK b : b.lock = Nothing /\ blob' = [blob EXCEPT ![c] = b]
        BY <1>10, <4>1 DEF ReclaimCloses, ReclaimRefused
      <4> QED BY <1>0, <4>2 DEF MediaTypeOK
    <3>2. /\ \A q \in Clients \ {p}, d \in Contents : blob[d].lock = q => blob'[d].lock = q
          /\ \A d \in Contents : blob'[d].lock # Nothing => Live(d) = {}
          /\ \A a \in Assets : asset[a].status # "none" =>
               /\ blob'[asset[a].content].state # "none"
               /\ blob'[asset[a].content].type = blob[asset[a].content].type
      <4>1. \A a \in Assets : asset[a].status # "none" => asset[a].content \in Contents \ {c}
        BY <1>5, <2>4 DEF Referenced
      <4>2. Live(c) = {} BY <2>4 DEF Live, Referenced
      <4> QED BY <1>5, <2>1, <3>1, <4>1, <4>2 DEF MediaInv, Locks
    <3> QED BY <1>4, <1>10, <2>1, <2>2, <3>2 DEF ReclaimCloses, ReclaimRefused
  <2>5. CASE Referenced(c)
    BY <1>10, <2>3, <2>5 DEF ReclaimCloses, ReclaimRefused
  <2> QED BY <2>4, <2>5
<1>11. CASE Fails(p)
  <2>1. \A d \in Contents : /\ blob'[d].type = blob[d].type /\ blob'[d].state = blob[d].state
                            /\ blob'[d].lock = IF blob[d].lock = p THEN Nothing ELSE blob[d].lock
    <3> TAKE d \in Contents
    <3>1. blob'[d] = IF blob[d].lock = p THEN [blob[d] EXCEPT !.lock = Nothing] ELSE blob[d]
      BY <1>11 DEF Fails
    <3> QED BY <1>3, <3>1 DEF Content
  <2>2. /\ \A q \in Clients \ {p}, d \in Contents : blob[d].lock = q => blob'[d].lock = q
        /\ \A d \in Contents : blob'[d].lock # Nothing => Live(d) = {}
        /\ \A a \in Assets : asset[a].status # "none" =>
             /\ blob'[asset[a].content].state # "none"
             /\ blob'[asset[a].content].type = blob[asset[a].content].type
    BY <1>5, <2>1 DEF MediaInv, Locks
  <2>3. Idle.at = "idle" BY DEF Idle
  <2> QED BY <1>4, <1>11, <2>2, <2>3 DEF Fails
<1> QED BY <1>8, <1>9, <1>10, <1>11

LEMMA RemovalKeepsInv ==
  ASSUME MediaInv, NEW p \in Clients, RemovalNext(p)
  PROVE  (Holding /\ Rows /\ Locks /\ LiveHasBytes)'
<1>0. MediaTypeOK BY DEF MediaInv
<1>1. ASSUME NEW a \in Assets, DeleteMarks(p, a)
      PROVE  (Holding /\ Rows /\ Locks /\ LiveHasBytes)'
  <2> DEFINE orphan == Live(asset[a].content) = {a}
             r == [Idle EXCEPT !.at = "marked", !.asset = a, !.content = asset[a].content,
                               !.orphan = orphan]
  <2>0. Serve(p, r) BY <1>1 DEF DeleteMarks
  <2> HIDE DEF orphan
  <2>1. r.at = "marked" /\ r.asset = a BY DEF Idle
  <2> HIDE DEF r
  <2>2. /\ op'[p].at = "marked" /\ op'[p].asset = a /\ \A q \in Clients \ {p} : op'[q] = op[q]
        /\ op[p].at = "idle" /\ asset[a].status = "ready" /\ Unheld(a)
        /\ UNCHANGED <<asset, blob, bytes, torn>>
    BY <1>0, <1>1, <2>0, <2>1 DEF DeleteMarks, Serve, MediaTypeOK
  <2>3. Holding' BY <2>2 DEF MediaInv, Holding, Unheld
  <2>4. Rows' BY <2>2 DEF MediaInv, Rows
  <2>5. \A c \in Contents : Live(c)' = Live(c) BY <2>2 DEF Live
  <2>6. Locks' BY <2>2, <2>5 DEF MediaInv, Locks
  <2>7. LiveHasBytes' BY <2>2, <2>5, ShrinkingKeepsBytes
  <2> QED BY <2>3, <2>4, <2>6, <2>7
<1>2. ASSUME NEW batch \in SUBSET Pending, Collects(p, batch)
      PROVE  (Holding /\ Rows /\ Locks /\ LiveHasBytes)'
  <2>1. batch \in SUBSET Contents BY DEF Pending
  <2>2. [Idle EXCEPT !.at = "reclaim", !.batch = batch] \in Request BY <2>1 DEF Idle, Request
  <2>3. PICK r \in Request : r = [Idle EXCEPT !.at = "reclaim", !.batch = batch] BY <2>2
  <2>4. Fits(r) /\ r.at = "reclaim" BY <2>3 DEF Idle, Fits
  <2> QED BY <1>2, <2>3, <2>4, QuietStep DEF Collects
<1> QED BY <1>1, <1>2, DeletionKeepsInv, ReclaimKeepsInv DEF RemovalNext

LEMMA MediaInvNext == MediaInv /\ [MediaNext]_media => MediaInv'
<1> SUFFICES ASSUME MediaInv, [MediaNext]_media PROVE MediaInv' OBVIOUS
<1>0. MediaTypeOK' BY MediaTypeNext DEF MediaInv
<1>1. ASSUME UNCHANGED <<asset, blob, bytes, op, torn>> PROVE MediaInv'
  BY <1>0, <1>1 DEF MediaInv, Holding, Rows, Locks, LiveHasBytes, Live, Key
<1>2. CASE FolderNext BY <1>1, <1>2 DEF FolderNext, CreateFolder, DeleteFolder
<1>3. CASE UNCHANGED media BY <1>1, <1>3 DEF media
<1>4. ASSUME NEW a \in Assets, NEW f \in Folders, MoveAsset(a, f) PROVE MediaInv'
  <2>1. \A b \in Assets : /\ asset'[b].status = asset[b].status
                         /\ asset'[b].content = asset[b].content
                         /\ asset'[b].type = asset[b].type
    BY <1>4, MovingIsTyped DEF MediaInv
  <2>2. UNCHANGED <<blob, bytes, op, torn>> BY <1>4 DEF MoveAsset
  <2>3. \A c \in Contents : Live(c)' = Live(c) BY <2>1, SameLive
  <2>4. \A c \in Contents : \A b \in Live(c) : asset'[b].type = asset[b].type BY <2>1 DEF Live
  <2>5. Holding'
    <3>1. \A q \in Clients : op[q].at = "marked" => op[q].asset \in Assets
      BY DEF MediaInv, MediaTypeOK
    <3> QED BY <2>1, <2>2, <3>1 DEF MediaInv, Holding
  <2>6. Rows' BY <2>1, <2>2 DEF MediaInv, Rows
  <2>7. Locks' BY <2>2, <2>3 DEF MediaInv, Locks
  <2>8. \A c \in Contents : Key(c)' = Key(c) BY <2>2 DEF Key
  <2>9. LiveHasBytes'
    <3> SUFFICES ASSUME NEW c \in Contents, Live(c) # {}, Key(c) \notin bytes
                 PROVE  Excused(c)'
      BY <2>2, <2>3, <2>8 DEF LiveHasBytes, Excused
    <3>1. Excused(c) BY DEF MediaInv, LiveHasBytes, Excused
    <3> QED BY <2>2, <2>3, <2>4, <2>8, <3>1 DEF Excused
  <2> QED BY <1>0, <2>5, <2>6, <2>7, <2>9 DEF MediaInv
<1>5. ASSUME NEW p \in Clients, IngestNext(p) PROVE MediaInv'
  BY <1>0, <1>5, IngestKeepsInv DEF MediaInv
<1>6. ASSUME NEW p \in Clients, RemovalNext(p) PROVE MediaInv'
  BY <1>0, <1>6, RemovalKeepsInv DEF MediaInv
<1> QED BY <1>2, <1>3, <1>4, <1>5, <1>6 DEF MediaNext

\* Bytes of a content go only by a reclaim, under its lock, with no live item.
LEMMA OnlyReclaimTakesBytes ==
  ASSUME MediaInv, [MediaNext]_media, NEW c \in Contents, Key(c) \in bytes, Key(c) \notin bytes'
  PROVE  Live(c) = {}
<1>0. MediaTypeOK BY DEF MediaInv
<1>1. ASSUME NEW p \in Clients, ReclaimUnlinks(p) PROVE Live(c) = {}
  <2>1. op[p].content \in Contents /\ blob[op[p].content].lock = p /\ p # Nothing
    BY <1>0, <1>1, MediaAssumption DEF ReclaimUnlinks, MediaInv, Locks, MediaTypeOK, MediaAssumption
  <2>2. c = op[p].content BY <1>1 DEF ReclaimUnlinks, Key
  <2> QED BY <2>1, <2>2 DEF MediaInv, Locks
<1>2. \A p \in Clients : ~IngestNext(p)
  BY DEF IngestNext, IngestBegins, IngestPuts, IngestCommits, IngestCommitsUnlocked, IngestEnsures
<1>3. ASSUME NEW p \in Clients, RemovalNext(p) PROVE ReclaimUnlinks(p)
  BY <1>3 DEF RemovalNext, DeleteMarks, DeleteCommits, Collects, ReclaimLocks, ReclaimCloses,
              ReclaimRefused, Fails
<1>4. ~FolderNext BY DEF FolderNext, CreateFolder, DeleteFolder
<1>5. \A a, f : ~MoveAsset(a, f) BY DEF MoveAsset
<1>6. ~UNCHANGED media BY DEF media
<1> QED BY <1>1, <1>2, <1>3, <1>4, <1>5, <1>6 DEF MediaNext

\* The library by itself: items, contents and requests are typed, and a live
\* item keeps its bytes.
THEOREM LiveItemsKeepBytes == MediaSpec => [](MediaTypeOK /\ LiveHasBytes)
<1>1. MediaInv => MediaTypeOK /\ LiveHasBytes BY DEF MediaInv
<1> QED BY <1>1, MediaInvInit, MediaInvNext, PTL DEF MediaSpec

=============================================================================

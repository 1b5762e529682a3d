---------------------------- MODULE MediaLibrary ----------------------------
(***************************************************************************)
(* The media library: items (media_assets) in folders, the content they    *)
(* share (media_blobs, one row per checksum), and the bytes, which are in  *)
(* another store under a key made of the checksum and the type.            *)
(*                                                                         *)
(* An operation of the service is a sequence of steps between which others *)
(* run: a write to the storage, a transaction, a write again.  The         *)
(* transaction of an ingest is one step, taken when nobody holds the rows  *)
(* it writes; those of a deletion and of a reclaim are split, because what *)
(* they read first decides what they do later.                             *)
(***************************************************************************)
EXTENDS Naturals, FiniteSets

CONSTANTS
  Assets,      \* ids of items; bound: each is given out once
  Contents,    \* checksums
  Types,       \* MIME types
  Videos,      \* those of a video
  Folders, Root,
  Clients,     \* requests that the API serves at once
  BatchLimit,  \* gcBatchLimit
  Faulty,      \* requests may fail or die half-way
  Nothing      \* no row, no client

ASSUME MediaAssumption ==
  /\ Videos \subseteq Types /\ Root \in Folders /\ BatchLimit \in Nat /\ Faulty \in BOOLEAN
  /\ Nothing \notin Assets \cup Contents \cup Types \cup Folders \cup Clients

VARIABLES
  folders,  \* the table media_folders
  asset,    \* the table media_assets
  blob,     \* the table media_blobs, with the lock on each row
  bytes,    \* the keys under which the storage has a file
  op,       \* per client, the request under way
  torn      \* history: keys whose ingest died after its commit

media == <<folders, asset, blob, bytes, op, torn>>

Item    == [status : {"none", "ready", "deleted"}, folder : Folders \cup {Nothing},
            content : Contents \cup {Nothing}, type : Types \cup {Nothing}]
Content == [state : {"none", "ready", "pending_delete"}, type : Types \cup {Nothing},
            lock : Clients \cup {Nothing}]
Request == [at : {"idle", "put", "commit", "ensure", "marked", "reclaim", "unlink", "close"},
            asset : Assets \cup {Nothing}, folder : Folders \cup {Nothing},
            content : Contents \cup {Nothing}, type : Types \cup {Nothing},
            orphan : BOOLEAN, batch : SUBSET Contents]

NoItem == [status |-> "none", folder |-> Nothing, content |-> Nothing, type |-> Nothing]
NoBlob == [state |-> "none", type |-> Nothing, lock |-> Nothing]
Idle   == [at |-> "idle", asset |-> Nothing, folder |-> Nothing, content |-> Nothing,
           type |-> Nothing, orphan |-> FALSE, batch |-> {}]

MediaTypeOK ==
  /\ folders \subseteq Folders
  /\ asset \in [Assets -> Item]
  /\ \A a \in Assets : asset[a].status # "none" => asset[a].content \in Contents
  /\ blob \in [Contents -> Content]
  /\ bytes \subseteq Contents \X Types
  /\ op \in [Clients -> Request]
  /\ \A p \in Clients : /\ op[p].at \in {"put", "commit", "ensure"} =>
                             op[p].content \in Contents /\ op[p].type \in Types
                        /\ op[p].at = "marked" => op[p].asset \in Assets
                        /\ op[p].at \in {"unlink", "close"} => op[p].content \in Contents
  /\ torn \subseteq Contents \X Types

MediaInit ==
  /\ folders = {Root}
  /\ asset = [a \in Assets |-> NoItem] /\ blob = [c \in Contents |-> NoBlob]
  /\ bytes = {} /\ op = [p \in Clients |-> Idle] /\ torn = {}

-----------------------------------------------------------------------------

Kind(t) == IF t \in Videos THEN "video" ELSE "image"

\* The live items of a content, those of one folder, and whether any row, live
\* or deleted, still refers to it.
Live(c)       == {a \in Assets : asset[a].status = "ready" /\ asset[a].content = c}
LiveIn(f, c)  == {a \in Live(c) : asset[a].folder = f}
Referenced(c) == \E a \in Assets : asset[a].status # "none" /\ asset[a].content = c

\* The key of the bytes, as the row of the content has it.
Key(c) == <<c, blob[c].type>>

\* The row of the content, and of the item, is free for a statement to write.
Free(c)     == blob[c].lock = Nothing
Unheld(a)   == \A p \in Clients : ~(op[p].at = "marked" /\ op[p].asset = a)

Pending == {c \in Contents : blob[c].state = "pending_delete"}

Serve(p, r) == op' = [op EXCEPT ![p] = r]

\* The row after the upsert: its type stays the one of the first ingest.
Registered(b, t) == [b EXCEPT !.state = "ready", !.type = IF b.state = "none" THEN t ELSE b.type]

-----------------------------------------------------------------------------
(* Folders and items.                                                      *)

CreateFolder(f) ==
  /\ f \notin folders
  /\ folders' = folders \cup {f}
  /\ UNCHANGED <<asset, blob, bytes, op, torn>>

\* The foreign key holds the folder of an item, of a deleted one too.
DeleteFolder(f) ==
  /\ f \in folders \ {Root}
  /\ \A a \in Assets : asset[a].folder # f
  /\ folders' = folders \ {f}
  /\ UNCHANGED <<asset, blob, bytes, op, torn>>

\* The unique index refuses a second live item of the content in the folder.
MoveAsset(a, f) ==
  /\ asset[a].status = "ready" /\ Unheld(a)
  /\ f \in folders \ {asset[a].folder} /\ LiveIn(f, asset[a].content) = {}
  /\ asset' = [asset EXCEPT ![a] = [asset[a] EXCEPT !.folder = f]]
  /\ UNCHANGED <<folders, blob, bytes, op, torn>>

-----------------------------------------------------------------------------
(* Ingest: the bytes, the transaction, the bytes again if they are gone.   *)

IngestBegins(p, c, t, f) ==
  /\ op[p].at = "idle" /\ f \in folders
  /\ Serve(p, [Idle EXCEPT !.at = "put", !.content = c, !.type = t, !.folder = f])
  /\ UNCHANGED <<folders, asset, blob, bytes, torn>>

IngestPuts(p) ==
  /\ op[p].at = "put"
  /\ bytes' = bytes \cup {<<op[p].content, op[p].type>>}
  /\ Serve(p, [op[p] EXCEPT !.at = "commit"])
  /\ UNCHANGED <<folders, asset, blob, torn>>

\* Wrong variant: the ingest does not wait for the row of the content.
IngestCommitsUnlocked(p) ==
  LET c == op[p].content  f == op[p].folder IN
  /\ op[p].at = "commit"
  /\ f \in folders
  /\ \A a \in LiveIn(f, c) : Unheld(a)
  /\ IF LiveIn(f, c) # {} THEN UNCHANGED asset
     ELSE \E a \in Assets :
            /\ asset[a].status = "none"
            /\ asset' = [asset EXCEPT ![a] = [status |-> "ready", folder |-> f, content |-> c,
                                              type |-> op[p].type]]
  /\ blob' = [blob EXCEPT ![c] = Registered(blob[c], op[p].type)]
  /\ Serve(p, [op[p] EXCEPT !.at = "ensure"])
  /\ UNCHANGED <<folders, bytes, torn>>

\* Content and item in one transaction; a live item of the folder is given back
\* instead of a second one.
IngestCommits(p) ==
  /\ op[p].at = "commit" /\ Free(op[p].content)
  /\ IngestCommitsUnlocked(p)

\* Wrong variant: the ingest trusts its first write.
IngestEndsUnensured(p) ==
  /\ op[p].at = "ensure"
  /\ Serve(p, Idle)
  /\ UNCHANGED <<folders, asset, blob, bytes, torn>>

\* The key is that of this ingest, not the one of the row.
IngestEnsures(p) ==
  /\ op[p].at = "ensure"
  /\ bytes' = bytes \cup {<<op[p].content, op[p].type>>}
  /\ torn' = torn \ {<<op[p].content, op[p].type>>}
  /\ Serve(p, Idle)
  /\ UNCHANGED <<folders, asset, blob>>

-----------------------------------------------------------------------------
(* Removal: the item, then the content nobody refers to any longer.        *)

DeleteMarks(p, a) ==
  /\ op[p].at = "idle" /\ asset[a].status = "ready" /\ Unheld(a)
  /\ Serve(p, [Idle EXCEPT !.at = "marked", !.asset = a, !.content = asset[a].content,
                           !.orphan = (Live(asset[a].content) = {a})])
  /\ UNCHANGED <<folders, asset, blob, bytes, torn>>

DeleteCommits(p) ==
  LET a == op[p].asset  c == asset[a].content IN
  /\ op[p].at = "marked"
  /\ asset' = [asset EXCEPT ![a] = [asset[a] EXCEPT !.status = "deleted"]]
  /\ \/ /\ op[p].orphan /\ Free(c)
        /\ blob' = [blob EXCEPT ![c] = [blob[c] EXCEPT !.state = "pending_delete"]]
        /\ Serve(p, [Idle EXCEPT !.at = "reclaim", !.batch = {c}])
     \/ /\ ~op[p].orphan
        /\ Serve(p, Idle)
        /\ UNCHANGED blob
  /\ UNCHANGED <<folders, bytes, torn>>

Collects(p, batch) ==
  /\ op[p].at = "idle"
  /\ batch # {} /\ Cardinality(batch) <= BatchLimit
  /\ Serve(p, [Idle EXCEPT !.at = "reclaim", !.batch = batch])
  /\ UNCHANGED <<folders, asset, blob, bytes, torn>>

\* What remains of the batch, or nothing.
Without(batch, c) ==
  IF batch = {c} THEN Idle ELSE [Idle EXCEPT !.at = "reclaim", !.batch = batch \ {c}]

\* Under the lock: nothing to do, or referenced again, or to be removed.
ReclaimLocks(p, c) ==
  /\ op[p].at = "reclaim" /\ c \in op[p].batch /\ Free(c)
  /\ \/ /\ blob[c].state # "pending_delete"
        /\ Serve(p, Without(op[p].batch, c))
        /\ UNCHANGED blob
     \/ /\ blob[c].state = "pending_delete" /\ Live(c) # {}
        /\ blob' = [blob EXCEPT ![c] = [blob[c] EXCEPT !.state = "ready"]]
        /\ Serve(p, Without(op[p].batch, c))
     \/ /\ blob[c].state = "pending_delete" /\ Live(c) = {}
        /\ blob' = [blob EXCEPT ![c] = [blob[c] EXCEPT !.lock = p]]
        /\ Serve(p, [op[p] EXCEPT !.at = "unlink", !.content = c])
  /\ UNCHANGED <<folders, asset, bytes, torn>>

ReclaimUnlinks(p) ==
  /\ op[p].at = "unlink"
  /\ bytes' = bytes \ {Key(op[p].content)}
  /\ Serve(p, [op[p] EXCEPT !.at = "close"])
  /\ UNCHANGED <<folders, asset, blob, torn>>

\* The foreign key of the items refuses the deletion of the row, and the
\* transaction is undone: the row stays pending.
ReclaimCloses(p) ==
  LET c == op[p].content IN
  /\ op[p].at = "close"
  /\ blob' = [blob EXCEPT ![c] = IF Referenced(c) THEN [blob[c] EXCEPT !.lock = Nothing] ELSE NoBlob]
  /\ Serve(p, Without(op[p].batch, c))
  /\ UNCHANGED <<folders, asset, bytes, torn>>

\* The storage refuses: the content stays pending, and the batch goes on.
ReclaimRefused(p) ==
  LET c == op[p].content IN
  /\ Faulty /\ op[p].at = "unlink"
  /\ blob' = [blob EXCEPT ![c] = [blob[c] EXCEPT !.lock = Nothing]]
  /\ Serve(p, Without(op[p].batch, c))
  /\ UNCHANGED <<folders, asset, bytes, torn>>

\* A request fails or its process dies: what was not committed is undone.  An
\* ingest whose folder is gone fails always.
Fails(p) ==
  /\ op[p].at # "idle"
  /\ Faulty \/ (op[p].at = "commit" /\ op[p].folder \notin folders)
  /\ Serve(p, Idle)
  /\ blob' = [c \in Contents |-> IF blob[c].lock = p THEN [blob[c] EXCEPT !.lock = Nothing] ELSE blob[c]]
  /\ torn' = IF op[p].at = "ensure" THEN torn \cup {<<op[p].content, op[p].type>>} ELSE torn
  /\ UNCHANGED <<folders, asset, bytes>>

-----------------------------------------------------------------------------

FolderNext == \E f \in Folders : CreateFolder(f) \/ DeleteFolder(f)

IngestNext(p) ==
  \/ \E c \in Contents, t \in Types, f \in Folders : IngestBegins(p, c, t, f)
  \/ IngestPuts(p)
  \/ IngestCommits(p)
  \/ IngestEnsures(p)

RemovalNext(p) ==
  \/ \E a \in Assets : DeleteMarks(p, a)
  \/ DeleteCommits(p)
  \/ \E batch \in SUBSET Pending : Collects(p, batch)
  \/ \E c \in Contents : ReclaimLocks(p, c)
  \/ ReclaimUnlinks(p)
  \/ ReclaimCloses(p)
  \/ ReclaimRefused(p)
  \/ Fails(p)

MediaNext ==
  \/ FolderNext
  \/ \E a \in Assets, f \in Folders : MoveAsset(a, f)
  \/ \E p \in Clients : IngestNext(p) \/ RemovalNext(p)

MediaSpec == MediaInit /\ [][MediaNext]_media

-----------------------------------------------------------------------------
(* What the server and the resolver make of an item.                       *)

\* The raw route: signature, row, bytes, in this order.
Opens(a, valid) ==
  IF ~valid THEN "invalid_signature"
  ELSE IF asset[a].status # "ready" THEN "not_found"
  ELSE IF Key(asset[a].content) \notin bytes THEN "bytes_missing"
  ELSE "stream"

Resolves(a) == asset[a].status = "ready"

-----------------------------------------------------------------------------

\* The bytes of a content with live items are there, or an ingest of it has yet
\* to make sure of them or died before it could, or all its items were ingested
\* under another type than its row: a reclaim that runs between the first write
\* of an ingest and its commit loses nothing.
LiveHasBytes ==
  \A c \in Contents : Live(c) # {} /\ Key(c) \notin bytes =>
    \/ \E p \in Clients : op[p].at = "ensure" /\ <<op[p].content, op[p].type>> = Key(c)
    \/ Key(c) \in torn
    \/ \A a \in Live(c) : asset[a].type # blob[c].type

\* Bytes disappear from under the row of a content only when no item of it is
\* live: the count under the lock and the lock itself keep a reclaim and an
\* ingest of the same content apart.
ReclaimSparesLive ==
  [][\A c \in Contents : Key(c) \in bytes /\ Key(c) \notin bytes' => Live(c) = {}]_media

\* What the ingest says of itself: once it has ended, the bytes are there.
IngestedBytesPresent ==
  \A c \in Contents : Live(c) # {} /\ Key(c) \notin bytes =>
    \E p \in Clients : op[p].at = "ensure" /\ op[p].content = c
=============================================================================

-------------------------- MODULE MCPlatformDriver --------------------------
EXTENDS PlatformDriver, TLC

MCSymmetry == Permutations(Clients) \cup Permutations(Assets) \cup Permutations(Contents)

\* A story of two items shows the first alone, as a publication of that one would.
MCPayloads == {<<>>} \cup {s \in Assets \X Assets : s[1] # s[2]}

MCBusy == {p \in Clients : op[p].at # "idle"}

\* The keys that are stored, and those that ingests under way are for.
MCKeys == bytes \cup {<<op[p].content, op[p].type>> :
                        p \in {q \in MCBusy : op[q].at \in {"put", "commit", "ensure"}}}

\* The contents of which the library has anything, rows without bytes included.
MCStocked == {k[1] : k \in MCKeys} \cup {c \in Contents : blob[c].state # "none"}

\* Bound: the library without a call has one content.  Beside a call the API
\* serves one request at a time, no ingest has died, a content has one type, and
\* there is one content in all folders or there are several in one.
MCOneBesideACall ==
  \/ (\A j \in Jobs : call[j].at = "idle") /\ Cardinality(MCStocked) <= 1
  \/ /\ Cardinality(MCBusy) <= 1 /\ torn = {}
     /\ \A k, l \in MCKeys : k[1] = l[1] => k = l
     /\ folders = (IF Cardinality(MCStocked) <= 1 THEN Folders ELSE {Root})
=============================================================================

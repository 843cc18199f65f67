------------------------------ MODULE LeafKnown ------------------------------
(***************************************************************************)
(* The leaves that are installed, and those among them that are known not  *)
(* to do all that arg.c promises of every leaf: what Leaf, which runs them, *)
(* and LeafNotes, which goes through their steps, have in common.          *)
(***************************************************************************)
CONSTANT Installed   \* file -> name of a leaf -> its steps (LeafTable's Surface)

\* Leaves that convert an argument ungated with a base in hand: the hashes of
\* cfold.c:20-39, the row numbers of ulog.c:322 and 334, the path of igno.c:68.
Reentrant ==
  {<<"cfold", n>> : n \in {"next", "merge", "produce", "step", "emitdiff", "emitfull"}}
  \cup {<<"ulog", "rowUri">>, <<"ulog", "rowTime">>, <<"igno", "match">>}

\* Leaves that write through a base after the array behind it was freed: the
\* caller of JABCBufOf (arg.c:429), which keeps no reference to `bytes`.
Unkept == {<<"fsw", "drain">>}

\* Leaves that hand back a value over a gate that threw: cfold.c, hunk.c,
\* pack.c and ulog.c answer null or 0 for a bad record, http.c:164-171 skips
\* the headers, igno.c:82 closes nothing, io.readdir takes an option that throws
\* for false (io.c:419), JABCBufBack ignores its setters.
Swallowers ==
  {<<"cfold", n>> : n \in {"count", "commits", "next", "merge", "alive", "produce", "itermem", "step"}}
  \cup {<<"hunk", n>> : n \in {"uri", "text", "toks", "verb", "time"}}
  \cup {<<"pack", n>> : n \in {"type", "size", "baseoff", "ref", "repack"}}
  \cup {<<"ulog", n>> : n \in {"time", "verb", "uri"}}
  \cup {<<"fsw", "drain">>, <<"http", "feed">>, <<"igno", "close">>, <<"io", "readdir">>}

\* Leaves that take an older exception for their own (git.c:251, pack.c:557,
\* io.c:926 and 954), and the one that fails without any (ulog.c:267).
Misreaders ==
  {<<"git", "close">>, <<"pack", "repack">>, <<"io", "spawn">>, <<"io", "spawnFds">>,
   <<"ulog", "open">>}

\* Leaves that scan back from a position past the watermark (ulog.c:176).
Backward == {<<"ulog", n>> : n \in {"seekVerb", "seekTime", "seekURI"}}

\* S with r in it, if r is a name at all.
Kept(S, r) == IF r = "" THEN S ELSE S \cup {r}

\* The function f, with the value v at k.
Bind(f, k, v) == [x \in {k} \cup DOMAIN f |-> IF x = k THEN v ELSE f[x]]

=============================================================================

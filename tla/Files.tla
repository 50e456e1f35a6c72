--------------------------------- MODULE Files ---------------------------------
(***************************************************************************)
(* The files a watcher looks at, its events, and who follows them.  A path *)
(* is a sequence of names and is a directory or a file once and for all;   *)
(* what is at a path has an inode, which an open descriptor refers to, and *)
(* a content, which is the number of the change that wrote it.             *)
(*                                                                         *)
(* The follower is the synchronisation of section 12.2 of doc/DESIGN.md:   *)
(* it copies a path when it is reported, reading it then, and deletes or   *)
(* renames its copies.                                                     *)
(***************************************************************************)
EXTENDS Integers, FiniteSets, SequencesExt

CONSTANTS
    Path,           \* the paths there may be something at
    Directory       \* those that are directories

ASSUME FilesAssumption ==
    /\ Path \subseteq Seq(STRING) \ {<< >>} /\ IsFiniteSet(Path)
    /\ Directory \subseteq Path
    /\ \A p \in Path : Len(p) > 1 => Front(p) \in Directory

VARIABLE fs         \* path -> [inode, content]

Under(r, p) == IsPrefix(r, p)
Tree(p)     == {q \in DOMAIN fs : Under(p, q)}
Entries(p)  == {q \in Tree(p) : Len(q) = Len(p) + 1}
SameType(p, q) == p \in Directory <=> q \in Directory

\* The path of x once p is called q.
Renamed(p, q, x) == q \o SubSeq(x, Len(p) + 1, Len(x))

Without(f, S) == Restrict(f, DOMAIN f \ S)
With(f, x, v) == [y \in DOMAIN f \cup {x} |-> IF y = x THEN v ELSE f[y]]
\* The map f with what g has besides: f @@ g, which the provers do not know.
Joined(f, g) == [x \in DOMAIN f \cup DOMAIN g |-> IF x \in DOMAIN f THEN f[x] ELSE g[x]]

\* A FileEvent; old is << >> where the code passes no old path.
FileEvent(type, path) == [type |-> type, path |-> path, old |-> << >>]
RenameEvent(path, old) == [type |-> "rename", path |-> path, old |-> old]
FileEvents == [type : {"create", "modify", "delete", "rename"}, path : Path, old : Path \cup {<< >>}]

\* What the follower's copies m become with one event.
Copied(m, p) == IF p \in DOMAIN fs THEN With(m, p, fs[p].content) ELSE m

Followed(m, e) ==
    CASE e.type \in {"create", "modify"} -> Copied(m, e.path)
      [] e.type = "delete"               -> Without(m, {e.path})
      [] e.type = "rename" /\ e.old = << >> -> Copied(Without(m, {e.path}), e.path)
      [] OTHER ->
           LET moved == {x \in DOMAIN m : Under(e.old, x)}
               kept  == Without(m, moved)
           IN  Copied(Joined([y \in {Renamed(e.old, e.path, x) : x \in moved} |->
                                m[CHOOSE x \in moved : Renamed(e.old, e.path, x) = y]], kept), e.path)

\* The copies once everything below the roots has been copied afresh.
Synced(m, roots) ==
    Joined([q \in UNION {Tree(r) : r \in roots} |-> fs[q].content],
           Without(m, {q \in DOMAIN m : \E r \in roots : Under(r, q)}))

InSync(m, p) ==
    /\ p \in DOMAIN fs <=> p \in DOMAIN m
    /\ p \in DOMAIN fs => fs[p].content = m[p]
===============================================================================

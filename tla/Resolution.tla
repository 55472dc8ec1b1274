----------------------------- MODULE Resolution -----------------------------
(***************************************************************************)
(* How the src argument of a call becomes sources: options::source,        *)
(* classify, resolve_local, list_glob and resolve_sources, over a world of *)
(* files and objects.                                                      *)
(*                                                                         *)
(* A file or object is a number, its place in the lexical order of names.  *)
(* A path is its scheme ("none": a local path; "other": gs://, az:// and   *)
(* the like; "malformed": begins like an s3 or http URL and is none),      *)
(* whether it holds a wildcard, and the names it stands for.               *)
(***************************************************************************)
EXTENDS Enumerations, SequencesExt, FiniteSetsExt

NullPath == [scheme |-> "null", wild |-> FALSE, names |-> {}]

PathSpec == [scheme : {"none", "s3", "http", "blob", "other", "malformed"},
             wild : BOOLEAN, names : SUBSET Nat]

\* A VARCHAR, a LIST whose elements may be NULL, a BLOB (its one path names the
\* file whose bytes it holds), or anything else, a NULL BLOB for one.
Argument == [kind : {"varchar", "list", "blob", "other"}, paths : Seq(PathSpec \cup {NullPath})]

\* The paths of a call, its NULL elements dropped; a BLOB has none.
SourcePaths(arg) ==
  LET given == Ascending({i \in DOMAIN arg.paths : arg.paths[i] # NullPath})
  IN IF arg.kind \in {"varchar", "list"} THEN [n \in DOMAIN given |-> arg.paths[given[n]]] ELSE <<>>

BadArgument(arg) == arg.kind # "blob" /\ SourcePaths(arg) = <<>>

Found(files) == [error |-> "none", files |-> files]
Fails(error) == [error |-> error, files |-> <<>>]

\* What is_remote sees of a path: how it begins.
IsRemote(path) == path.scheme \in {"s3", "http", "malformed"}

Matches(path, world) == Found(Ascending(path.names \cap world))

\* A glob may match nothing; a literal path must exist.
ResolveLocal(path, world) ==
  IF path.wild \/ path.names \subseteq world THEN Matches(path, world) ELSE Fails("missing")

\* Mutant of ResolveLocations: objects are listed newest first.
ResolveReversed(path, world) ==
  IF path.scheme = "none" THEN ResolveLocal(path, world)
  ELSE IF path.scheme = "other" THEN Fails("scheme")
  ELSE IF path.scheme = "malformed" THEN Fails("url")
  ELSE Found(Reverse(Ascending(path.names \cap world)))

\* Mutant of ResolveLocations: any path that is not remote is a local one.
ResolveOtherLocally(path, world) ==
  CASE path.scheme \in {"none", "other"} -> ResolveLocal(path, world)
    [] path.scheme = "malformed" -> Fails("url")
    [] path.scheme = "s3" /\ path.wild -> Matches(path, world)
    [] OTHER -> Found(Ascending(path.names))

\* Only s3 can be listed.  A remote path without a wildcard, and any http URL,
\* is one source, whether the object exists or not.
ResolveLocations(path, world) ==
  CASE path.scheme = "none" -> ResolveLocal(path, world)
    [] path.scheme = "other" -> Fails("scheme")
    [] path.scheme = "malformed" -> Fails("url")
    [] path.scheme = "s3" /\ path.wild -> Matches(path, world)
    [] OTHER -> Found(Ascending(path.names))

\* The sources of all paths, in the order of the paths; the first error wins.
ResolvePaths(paths, world) ==
  LET each == [i \in DOMAIN paths |-> ResolveLocations(paths[i], world)]
      wrong == {i \in DOMAIN paths : each[i].error # "none"}
  IN IF wrong # {} THEN each[Min(wrong)]
     ELSE Found(FlattenSeq([i \in DOMAIN paths |-> each[i].files]))

ResolveSources(arg, world) ==
  CASE BadArgument(arg) -> Fails("argument")
    [] arg.kind = "blob" -> Found(Ascending(arg.paths[1].names))
    [] OTHER -> ResolvePaths(SourcePaths(arg), world)

\* Mutant of BindError: only the first path is looked at.
BindErrorOfFirst(arg, world) ==
  IF \E i \in DOMAIN SourcePaths(arg) :
       LET p == SourcePaths(arg)[i]
       IN i = 1 /\ ~IsRemote(p) /\ ResolveLocal(p, world).error # "none"
  THEN "missing" ELSE "none"

\* on_bind of read_rib and read_updates looks at every path that does not begin
\* like an s3 or http URL, one of another scheme included, and at nothing else: a
\* bad argument has no paths.
BindError(arg, world) ==
  IF \E p \in ToSet(SourcePaths(arg)) :
       ~IsRemote(p) /\ ResolveLocal(p, world).error # "none"
  THEN "missing" ELSE "none"
=============================================================================

------------------------------ MODULE Relisting -----------------------------
(***************************************************************************)
(* A call of read_rib or read_updates from its bind to its last batch,     *)
(* while files come and go.  The sources of the scan are what the src      *)
(* argument resolves to: once over stdio, again for every response over    *)
(* http, where the resume token still holds the index of a source in the   *)
(* listing before.                                                         *)
(***************************************************************************)
EXTENDS MrtScan, Resolution

CONSTANTS
  Calls,      \* the src arguments a call may be made with
  Contents,   \* the source every file or object holds, a function on names
  MaxChanges  \* how often the world may change

Files == DOMAIN Contents

\* A path stands for a number of files; a BLOB is one of them.
ASSUME CallsAssumption ==
  /\ Calls \subseteq Argument
  /\ \A c \in Calls :
       /\ \A i \in DOMAIN c.paths : IsFiniteSet(c.paths[i].names)
       /\ c.kind = "blob" => Len(c.paths) = 1
ASSUME ContentsAssumption ==
  /\ Files \subseteq Nat \ {0}
  /\ \A f \in Files : IsSource(Contents[f])

\* What a scan is bound to is what a call resolves to, in some state of the world,
\* and nothing before that.
ASSUME ListedInputsAssumption ==
  /\ <<>> \in Inputs
  /\ \A c \in Calls, existing \in SUBSET Files :
       LET found == ResolveSources(c, existing)
       IN found.error = "none" =>
            [i \in DOMAIN found.files |-> Contents[found.files[i]]] \in Inputs

VARIABLES
  call,      \* the src argument of the call
  world,     \* the files and objects that exist now
  changes,   \* how often the world has changed
  phase,     \* "bind", "bound", "listed" or "refused"
  refusal,   \* why the call was refused, at bind time or by the producer
  listing,   \* the files the current sources are
  first,     \* the listing of the first response
  steady,    \* every listing so far has begun with the one before
  files      \* the file of each row the client has

around == <<call, world, changes, phase, refusal, listing, first, steady, files>>
allVars == <<scanVars, around>>

RelistInit ==
  /\ ScanInit /\ sources = <<>>
  /\ call \in Calls
  /\ world \in SUBSET Files
  /\ changes = 0
  /\ phase = "bind"
  /\ refusal = "none"
  /\ listing = <<>>
  /\ first = <<>>
  /\ steady = TRUE
  /\ files = <<>>

Over == phase = "refused" \/ pc \in {"finished", "failed"}

\* A file or object appears or is deleted.
Change ==
  /\ changes < MaxChanges
  /\ ~Over
  /\ \E f \in Files : world' = IF f \in world THEN world \ {f} ELSE world \cup {f}
  /\ changes' = changes + 1
  /\ UNCHANGED <<scanVars, call, phase, refusal, listing, first, steady, files>>

Bind ==
  /\ phase = "bind"
  /\ refusal' = BindError(call, world)
  /\ phase' = IF refusal' = "none" THEN "bound" ELSE "refused"
  /\ UNCHANGED <<scanVars, call, world, changes, listing, first, steady, files>>

\* A producer is built: before the first batch, and over http before each one.
Build ==
  /\ pc = "idle" /\ Len(delivered) < MaxDelivered
  /\ phase = "bound" \/ (phase = "listed" /\ transport = "http")
  /\ LET found == ResolveSources(call, world) IN
       IF found.error # "none"
       THEN /\ refusal' = found.error
            /\ pc' = "failed"
            /\ UNCHANGED <<bound, fields, pending, token, phase, listing, first, steady>>
       ELSE /\ phase' = "listed"
            /\ listing' = found.files
            /\ first' = IF phase = "bound" THEN listing' ELSE first
            /\ steady' = (steady /\ IsPrefix(listing, listing'))
            /\ sources' = [i \in DOMAIN listing' |-> Contents[listing'[i]]]
            /\ Rebuild(sources')
            /\ pc' = IF done' THEN "finished" ELSE "pulling"
            /\ UNCHANGED <<strict, transport, pending, token, refusal>>
  /\ UNCHANGED <<call, world, changes, delivered, files>>

\* Over stdio the producer lives on.
RequestMore ==
  /\ phase = "listed" /\ transport = "stdio"
  /\ ScanRequest
  /\ UNCHANGED around

\* Only a file that is still there can be opened; a BLOB came with the call.
RelistPull ==
  /\ ScanPull
  /\ OpenCurrent => listing[idx] \in world \/ call.kind = "blob"
  /\ UNCHANGED around

RelistEmit ==
  /\ ScanEmit
  /\ files' = files \o [n \in DOMAIN pending |-> listing[pending[n].src]]
  /\ UNCHANGED <<call, world, changes, phase, refusal, listing, first, steady>>

\* The call is over, or the client stopped asking.
RelistEnded ==
  /\ Over \/ (pc = "idle" /\ Len(delivered) >= MaxDelivered)
  /\ UNCHANGED allVars

RelistNext ==
  Change \/ Bind \/ Build \/ RequestMore \/ RelistPull \/ RelistEmit \/ RelistEnded

RelistSpec == RelistInit /\ [][RelistNext]_allVars

---------------------------------------------------------------------------
(* Properties *)

\* The sources are the files of the listing, and the producer's index and its
\* restored one never point past them.
ListingTypeOK ==
  /\ phase \in {"bind", "bound", "listed", "refused"}
  /\ refusal \in {"none", "missing", "scheme", "url", "argument"}
  /\ sources = [i \in DOMAIN listing |-> Contents[listing[i]]]
  /\ idx \in 1 .. Len(sources) + 1
  /\ pc = "pulling" /\ skipTo # NoSkip => idx <= Len(sources)

\* The rows file f stands for when it is source s.
RowsOfFile(f, s, j) == RowsAt([i \in {s} |-> Contents[f]], s, j)

\* However the listing moves under the checkpoint, a row is one of its own file,
\* with the peers and the view of that file (reader.rs:10-13).
RowsOfTheirFile ==
  \A n \in DOMAIN delivered :
    LET r == delivered[n]
    IN r \in Range(RowsOfFile(files[n], r.src, r.rec))

\* While the listing only grows at its end (new archives sort last), the files
\* of the first listing are read in order (README.md:60), no row twice unless a
\* bad record can be read again; and a call that ends has all their rows, unless
\* it can resume past a torn file.
SteadyListingExact ==
  steady =>
    /\ strict \/ transport = "stdio" \/ ~Has(sources, {"bad"}) =>
         \A m, n \in DOMAIN delivered : m < n => Precedes(delivered[m], delivered[n])
    /\ pc = "finished" /\ (strict \/ transport = "stdio" \/ ~Has(sources, {"torn"})) =>
         \A s \in DOMAIN first : \A j \in DOMAIN Contents[first[s]] :
           Range(RowsOfFile(first[s], s, j)) \subseteq Range(delivered)

\* The files of a first listing are sorted within a path and follow the paths.
ListedInOrder ==
  \A m, n \in DOMAIN first :
    m < n =>
      \E i, k \in DOMAIN call.paths :
        /\ first[m] \in call.paths[i].names /\ first[n] \in call.paths[k].names
        /\ i < k \/ (i = k /\ first[m] < first[n])

\* What bind time admits, the producer finds, for as long as no file has changed.
BindForesees == phase # "refused" /\ refusal = "missing" => changes > 0

\* gs:// and az:// are an error, and no silent fallback to a local file
\* (cloud.rs:9-10, 41-42): bind time looks such a path up like a local one
\* (read_rib.rs:118-120), but whatever it finds, no listing is ever made of a call
\* with one; and it is refused for its scheme only if bind time found it locally.
NoLocalFallback ==
  LET foreign == {p \in ToSet(SourcePaths(call)) : p.scheme = "other"}
  IN /\ phase = "listed" => foreign = {}
     /\ refusal = "scheme" => \E p \in foreign : p.wild \/ changes > 0 \/ p.names \subseteq world

---------------------------------------------------------------------------
(* What the documentation says, and the code does not keep *)

\* The offset round-trips exactly (reader.rs:14-15): while the listing only
\* grows at its end, every file is delivered whole or not at all.
WholeFiles ==
  steady /\ pc = "finished" /\ ~Has(sources, ErrorKinds) =>
    \A s \in DOMAIN listing :
      LET rows == UNION {Range(RowsOfFile(listing[s], s, j)) : j \in DOMAIN Contents[listing[s]]}
      IN rows \cap Range(delivered) = {} \/ rows \subseteq Range(delivered)
=============================================================================

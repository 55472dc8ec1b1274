--------------------------- MODULE RelistingProofs ---------------------------
(***************************************************************************)
(* A call whose files come and go, for all calls, contents and batch       *)
(* sizes.  What it resolves to is in order, and foreseen at bind time.     *)
(* Whatever happens to the files between two responses, its rows are rows  *)
(* of the file they are attributed to; and while the listing only grows at *)
(* its end, the files it had first are read as if nothing else were there. *)
(***************************************************************************)
EXTENDS Relisting, MrtScanProofs

---------------------------------------------------------------------------
(* What a call resolves to *)

\* Numbers of a set, in order.
InOrderOf(q, S) ==
  /\ q \in Seq(Nat)
  /\ \A a \in DOMAIN q : q[a] \in S
  /\ \A a, b \in DOMAIN q : a < b => q[a] < q[b]

\* A listing of some of the numbers of a set.
LEMMA ListedOf ==
  ASSUME NEW S, S \subseteq Nat, IsFiniteSet(S), NEW T, T \subseteq S
  PROVE  InOrderOf(Ascending(T), S)
<1>1. T \subseteq Nat /\ IsFiniteSet(T)
  BY FS_Subset
<1>2. Cardinality(T) \in Nat /\ Lists(Ascending(T), T)
  BY <1>1, AscendingIs
<1> DEFINE q == Ascending(T)
<1>3. q \in [1 .. Cardinality(T) -> T] /\ \A m, n \in 1 .. Cardinality(T) : m < n => q[m] < q[n]
  BY <1>2 DEF Lists
<1> HIDE DEF q
<1>4. q \in [1 .. Cardinality(T) -> Nat]
  BY <1>1, <1>3
<1>5. q \in Seq(Nat) /\ DOMAIN q = 1 .. Cardinality(T)
  BY <1>2, <1>4
<1>6. InOrderOf(q, S)
  BY <1>3, <1>5 DEF InOrderOf
<1> QED  BY <1>6 DEF q

\* A path that is not NULL and stands for finitely many files.
IsPath(path) == path \in PathSpec /\ IsFiniteSet(path.names)

\* One path: its files are among its names, and only a local path goes missing.
LEMMA PathResolved ==
  ASSUME NEW path, IsPath(path), NEW existing
  PROVE  /\ InOrderOf(ResolveLocations(path, existing).files, path.names)
         /\ ResolveLocations(path, existing).error \in {"none", "missing", "scheme", "url"}
         /\ ResolveLocations(path, existing).error = "missing"
              => ~IsRemote(path) /\ ResolveLocal(path, existing).error # "none"
         /\ ResolveLocations(path, existing).error = "scheme" <=> path.scheme = "other"
<1>1. path.names \subseteq Nat /\ IsFiniteSet(path.names)
  BY DEF IsPath, PathSpec
<1> DEFINE some == path.names \cap existing
           there == Ascending(some)
           all == Ascending(path.names)
<1>2. InOrderOf(there, path.names) /\ InOrderOf(all, path.names)
  <2>1. some \subseteq path.names
    OBVIOUS
  <2> HIDE DEF some
  <2> QED  BY <1>1, <2>1, ListedOf
<1>3. InOrderOf(<<>>, path.names)
  BY DEF InOrderOf
<1>4. Matches(path, existing) = [error |-> "none", files |-> there]
  BY DEF Matches, Found
<1> HIDE DEF there, all, some
<1>5. ResolveLocal(path, existing) \in {[error |-> "none", files |-> there],
                                        [error |-> "missing", files |-> <<>>]}
  BY <1>4 DEF ResolveLocal, Fails
<1>6. CASE path.scheme = "none"
  <2>1. ResolveLocations(path, existing) = ResolveLocal(path, existing)
    BY <1>6 DEF ResolveLocations
  <2> QED  BY <1>2, <1>3, <1>5, <1>6, <2>1 DEF IsRemote
<1>7. CASE path.scheme = "other"
  <2>1. ResolveLocations(path, existing) = [error |-> "scheme", files |-> <<>>]
    BY <1>7 DEF ResolveLocations, Fails
  <2> QED  BY <1>3, <1>7, <2>1
<1>8. CASE path.scheme = "malformed"
  <2>1. ResolveLocations(path, existing) = [error |-> "url", files |-> <<>>]
    BY <1>8 DEF ResolveLocations, Fails
  <2> QED  BY <1>3, <1>8, <2>1
<1>9. CASE path.scheme \notin {"none", "other", "malformed"}
  <2>1. ResolveLocations(path, existing) \in {[error |-> "none", files |-> there],
                                              [error |-> "none", files |-> all]}
    BY <1>4, <1>9 DEF ResolveLocations, Found, all
  <2> QED  BY <1>2, <1>9, <2>1
<1> QED  BY <1>6, <1>7, <1>8, <1>9

\* A sequence of paths, and the files each of them stands for.
ArePaths(paths) ==
  /\ Len(paths) \in Nat /\ DOMAIN paths = 1 .. Len(paths)
  /\ \A i \in 1 .. Len(paths) : IsPath(paths[i])
Each(paths, existing) == [i \in 1 .. Len(paths) |-> ResolveLocations(paths[i], existing).files]

\* All of them: the files are those of each, joined, or there is an error of one.
LEMMA PathsResolved ==
  ASSUME NEW paths, ArePaths(paths), NEW existing
  PROVE  /\ ResolvePaths(paths, existing).error \in {"none", "missing", "scheme", "url"}
         /\ ResolvePaths(paths, existing).error = "none"
              => ResolvePaths(paths, existing).files = FlattenSeq(Each(paths, existing))
         /\ ResolvePaths(paths, existing).error = "missing"
              => \E i \in 1 .. Len(paths) : ResolveLocations(paths[i], existing).error = "missing"
         /\ ResolvePaths(paths, existing).error = "scheme"
              => \E i \in 1 .. Len(paths) : paths[i].scheme = "other"
         /\ ResolvePaths(paths, existing).error = "none"
              => \A i \in 1 .. Len(paths) : paths[i].scheme # "other"
<1> DEFINE each == [i \in DOMAIN paths |-> ResolveLocations(paths[i], existing)]
           wrong == {i \in DOMAIN paths : each[i].error # "none"}
           found == IF wrong # {} THEN each[Min(wrong)]
                    ELSE Found(FlattenSeq([i \in DOMAIN paths |-> each[i].files]))
<1>1. ResolvePaths(paths, existing) = found
  BY DEF ResolvePaths
<1>2. \A i \in 1 .. Len(paths) : each[i].error \in {"none", "missing", "scheme", "url"}
  BY PathResolved DEF ArePaths
<1>3. \A i \in 1 .. Len(paths) : each[i] = ResolveLocations(paths[i], existing)
  BY DEF ArePaths
<1>4. \A i \in 1 .. Len(paths) : each[i].error = "scheme" <=> paths[i].scheme = "other"
  BY <1>3, PathResolved DEF ArePaths
<1>5. wrong = {} => \A i \in 1 .. Len(paths) : each[i].error = "none"
  BY DEF ArePaths
<1>6. [i \in DOMAIN paths |-> each[i].files] = Each(paths, existing)
  BY DEF ArePaths, Each
<1>7. wrong \subseteq 1 .. Len(paths) /\ wrong \subseteq Nat /\ \A i \in wrong : each[i].error # "none"
  BY DEF ArePaths
<1> HIDE DEF each, wrong
<1>8. CASE wrong = {}
  <2>1. found = [error |-> "none", files |-> FlattenSeq(Each(paths, existing))]
    BY <1>6, <1>8 DEF Found
  <2> QED  BY <1>1, <1>8, <1>4, <1>5, <2>1
<1>9. CASE wrong # {}
  <2>1. \E n \in wrong : \A m \in wrong : n <= m
    BY <1>7, <1>9, LeastNumber
  <2>2. Min(wrong) \in wrong
    BY <2>1 DEF Min
  <2>3. found = each[Min(wrong)] /\ Min(wrong) \in 1 .. Len(paths)
    BY <1>7, <1>9, <2>2
  <2> QED  BY <1>1, <1>2, <1>3, <1>7, <1>4, <2>2, <2>3
<1> QED  BY <1>8, <1>9

\* The places the paths of a call have among its elements, NULL ones included.
Keeps(kept, c) ==
  /\ kept \in [1 .. Len(SourcePaths(c)) -> DOMAIN c.paths]
  /\ \A m, n \in 1 .. Len(SourcePaths(c)) : m < n => kept[m] < kept[n]
  /\ \A n \in 1 .. Len(SourcePaths(c)) : SourcePaths(c)[n] = c.paths[kept[n]]

LEMMA KeptPaths ==
  ASSUME NEW c \in Calls, c.kind \in {"varchar", "list"}
  PROVE  ArePaths(SourcePaths(c)) /\ \E kept : Keeps(kept, c)
<1> DEFINE S == {i \in DOMAIN c.paths : c.paths[i] # NullPath}
           given == Ascending(S)
           paths == [n \in DOMAIN given |-> c.paths[given[n]]]
           size == Cardinality(S)
<1>1. c \in Argument /\ c.paths \in Seq(PathSpec \cup {NullPath})
      /\ \A i \in DOMAIN c.paths : IsFiniteSet(c.paths[i].names)
  BY CallsAssumption DEF Argument
<1>2. /\ Len(c.paths) \in Nat /\ DOMAIN c.paths = 1 .. Len(c.paths)
      /\ \A i \in DOMAIN c.paths : c.paths[i] \in PathSpec \cup {NullPath}
  BY <1>1
<1>3. S \in SUBSET (1 .. Len(c.paths)) /\ \A i \in S : IsPath(c.paths[i])
  BY <1>1, <1>2 DEF IsPath
<1> HIDE DEF S
<1>4. S \subseteq Nat /\ IsFiniteSet(S)
  BY <1>2, <1>3, IndexesFinite
<1>5. size \in Nat /\ Lists(given, S)
  BY <1>4, AscendingIs
<1> HIDE DEF given
<1>6. given \in [1 .. size -> S] /\ \A m, n \in 1 .. size : m < n => given[m] < given[n]
  BY <1>5 DEF Lists
<1>7. SourcePaths(c) = paths
  BY DEF SourcePaths, S, given
<1> HIDE DEF size
<1>8. Len(paths) = size /\ DOMAIN paths = 1 .. size /\ \A n \in 1 .. size : paths[n] = c.paths[given[n]]
  BY <1>5, <1>6
<1> HIDE DEF paths
<1>9. ArePaths(SourcePaths(c))
  BY <1>3, <1>5, <1>6, <1>7, <1>8 DEF ArePaths
<1>10. Keeps(given, c)
  <2>1. given \in [1 .. size -> DOMAIN c.paths]
    BY <1>2, <1>3, <1>6
  <2> QED  BY <1>6, <1>7, <1>8, <2>1 DEF Keeps
<1> QED  BY <1>9, <1>10

\* The files are sorted within a path and follow the paths.
FollowPaths(q, c) ==
  \A m, n \in DOMAIN q :
    m < n =>
      \E i, k \in DOMAIN c.paths :
        /\ q[m] \in c.paths[i].names /\ q[n] \in c.paths[k].names
        /\ i < k \/ (i = k /\ q[m] < q[n])

\* The paths of a call over gs:// and the like.
Foreign(c) == {p \in ToSet(SourcePaths(c)) : p.scheme = "other"}

\* The whole argument.
LEMMA CallResolved ==
  ASSUME NEW c \in Calls, NEW existing
  PROVE  /\ ResolveSources(c, existing).error \in {"none", "missing", "scheme", "url", "argument"}
         /\ ResolveSources(c, existing).error = "none"
              => /\ ResolveSources(c, existing).files \in Seq(Nat)
                 /\ FollowPaths(ResolveSources(c, existing).files, c)
         /\ ResolveSources(c, existing).error = "missing" => BindError(c, existing) # "none"
         /\ ResolveSources(c, existing).error = "none" => Foreign(c) = {}
         /\ ResolveSources(c, existing).error = "scheme" => Foreign(c) # {}
<1>1. c \in Argument /\ c.paths \in Seq(PathSpec \cup {NullPath})
      /\ \A i \in DOMAIN c.paths : IsFiniteSet(c.paths[i].names)
  BY CallsAssumption DEF Argument
<1>2. CASE BadArgument(c)
  <2>1. ResolveSources(c, existing) = [error |-> "argument", files |-> <<>>]
    BY <1>2 DEF ResolveSources, BadArgument, Fails
  <2> QED  BY <2>1
<1>3. CASE c.kind = "blob"
  <2> DEFINE names == c.paths[1].names
             q == Ascending(names)
  <2>1. 1 \in DOMAIN c.paths /\ c.paths[1] \in PathSpec \cup {NullPath} /\ IsFiniteSet(names)
    <3>1. Len(c.paths) = 1
      BY <1>3, CallsAssumption
    <3> QED  BY <1>1, <3>1
  <2>2. names \subseteq Nat
    BY <2>1 DEF PathSpec, NullPath
  <2>3. InOrderOf(q, names)
    BY <2>1, <2>2, ListedOf
  <2>4. ResolveSources(c, existing) = [error |-> "none", files |-> q]
    BY <1>3 DEF ResolveSources, BadArgument, Found
  <2> HIDE DEF q
  <2>5. q \in Seq(Nat) /\ FollowPaths(q, c)
    BY <2>1, <2>3 DEF InOrderOf, FollowPaths
  <2>6. Foreign(c) = {}
    BY <1>3 DEF Foreign, SourcePaths, ToSet
  <2> QED  BY <2>4, <2>5, <2>6
<1>4. CASE ~BadArgument(c) /\ c.kind # "blob"
  <2> DEFINE paths == SourcePaths(c)
             lists == Each(paths, existing)
  <2>1. c.kind \in {"varchar", "list"}
    BY <1>4 DEF BadArgument, SourcePaths
  <2>2. ArePaths(paths)
    BY <2>1, KeptPaths
  <2>3. PICK kept : Keeps(kept, c)
    BY <2>1, KeptPaths
  <2>4. ResolveSources(c, existing) = ResolvePaths(paths, existing)
    BY <1>4 DEF ResolveSources
  <2>5. \A i \in 1 .. Len(paths) : InOrderOf(ResolveLocations(paths[i], existing).files, paths[i].names)
    BY <2>2, PathResolved DEF ArePaths
  <2>6. Len(paths) \in Nat
    BY <2>2 DEF ArePaths
  <2>7. /\ lists \in Seq(Seq(Nat)) /\ Len(lists) = Len(paths)
        /\ \A i \in 1 .. Len(paths) : InOrderOf(lists[i], paths[i].names)
    <3> HIDE DEF paths
    <3>1. \A i \in 1 .. Len(paths) : ResolveLocations(paths[i], existing).files \in Seq(Nat)
      BY <2>5 DEF InOrderOf
    <3> QED  BY <2>5, <2>6, <3>1 DEF Each
  <2> HIDE DEF lists
  <2> DEFINE q == FlattenSeq(lists)
  <2>8. q \in Seq(Nat) /\ HasInOrder(q, lists, Len(lists))
    BY <2>7, FlattenInOrder
  <2> HIDE DEF q
  <2>9. FollowPaths(q, c)
    <3> SUFFICES ASSUME NEW m \in DOMAIN q, NEW n \in DOMAIN q, m < n
                 PROVE  \E i, k \in DOMAIN c.paths :
                          /\ q[m] \in c.paths[i].names /\ q[n] \in c.paths[k].names
                          /\ i < k \/ (i = k /\ q[m] < q[n])
      BY DEF FollowPaths
    <3>1. StandsBefore(q[m], q[n], lists, Len(paths))
      BY <2>7, <2>8 DEF HasInOrder
    <3>2. PICK i \in 1 .. Len(paths), k \in 1 .. Len(paths) :
            \E a \in DOMAIN lists[i], b \in DOMAIN lists[k] :
              q[m] = lists[i][a] /\ q[n] = lists[k][b] /\ (i < k \/ (i = k /\ a < b))
      BY <3>1 DEF StandsBefore
    <3>3. q[m] \in paths[i].names /\ q[n] \in paths[k].names
      BY <2>7, <3>2 DEF InOrderOf
    <3>4. i = k => q[m] < q[n]
      BY <2>7, <3>2 DEF InOrderOf
    <3>5. /\ kept[i] \in DOMAIN c.paths /\ kept[k] \in DOMAIN c.paths
          /\ paths[i] = c.paths[kept[i]] /\ paths[k] = c.paths[kept[k]]
          /\ i < k => kept[i] < kept[k]
      BY <2>3 DEF Keeps
    <3> QED  BY <3>2, <3>3, <3>4, <3>5
  <2>10. ASSUME ResolvePaths(paths, existing).error = "missing" PROVE BindError(c, existing) # "none"
    <3>1. PICK i \in 1 .. Len(paths) : ResolveLocations(paths[i], existing).error = "missing"
      BY <2>2, <2>10, PathsResolved
    <3>2. ~IsRemote(paths[i]) /\ ResolveLocal(paths[i], existing).error # "none"
      BY <2>2, <3>1, PathResolved DEF ArePaths
    <3>3. paths[i] \in ToSet(SourcePaths(c))
      BY <2>2 DEF ArePaths, ToSet
    <3> QED  BY <3>2, <3>3 DEF BindError
  <2>11. Foreign(c) = {p \in {paths[i] : i \in 1 .. Len(paths)} : p.scheme = "other"}
    BY <2>2 DEF ArePaths, Foreign, ToSet
  <2>12. /\ ResolvePaths(paths, existing).error = "none" => Foreign(c) = {}
         /\ ResolvePaths(paths, existing).error = "scheme" => Foreign(c) # {}
    <3> HIDE DEF paths
    <3> QED  BY <2>2, <2>11, PathsResolved
  <2> QED  BY <2>2, <2>4, <2>8, <2>9, <2>10, <2>12, PathsResolved DEF q, lists
<1> QED  BY <1>2, <1>3, <1>4

---------------------------------------------------------------------------
(* Rows and the files they are from *)

\* A row is one of its file.
OfItsFile(row, file) == row \in Range(RowsOfFile(file, row.src, row.rec))

\* The producer's own invariant, over the sources of the latest listing; the
\* token is of an earlier one and may point past them.
RelistInv ==
  /\ CoreInv
  /\ AllGenuine(sources, pending)
  /\ pc = "idle" => pending = <<>>
  /\ call \in Calls
  /\ world \subseteq Files
  /\ listing \in Seq(Nat)
  /\ sources = [i \in DOMAIN listing |-> Contents[listing[i]]]
  /\ delivered \in Seq(Row)
  /\ files \in Seq(Nat)
  /\ Len(files) = Len(delivered)
  /\ \A n \in DOMAIN delivered : OfItsFile(delivered[n], files[n])

\* The producer's own steps leave the sources alone.
LEMMA ProducerStep ==
  RelistInv /\ [Next]_vars
    => /\ CoreInv' /\ sources' = sources /\ AllGenuine(sources, pending')
       /\ (pc' = "idle" => pending' = <<>>)
<1> SUFFICES ASSUME RelistInv, [Next]_vars
             PROVE  /\ CoreInv' /\ sources' = sources /\ AllGenuine(sources, pending')
                    /\ (pc' = "idle" => pending' = <<>>)
  OBVIOUS
<1>1. CoreInv' /\ AllGenuine(sources, pending')
  BY StepCore, StepPending DEF RelistInv
<1>2. sources' = sources
  BY DEF Next, vars, Request, Pull, Emit, Ended, OpenCurrent, OpenFails, Exhausted,
     ReadRecord, CleanEndOfSource, StrictError, RecoverableError, TornError, CaptureError, bound
<1>3. pc' = "idle" => pending' = <<>>
  <2> SUFFICES ASSUME pc' = "idle" PROVE pending' = <<>>
    OBVIOUS
  <2>1. \A rows : AfterRows(rows) # "idle"
    BY DEF AfterRows
  <2> QED  BY <2>1 DEF RelistInv, Next, vars, Request, Pull, Emit, Ended, OpenCurrent, OpenFails,
     Exhausted, ReadRecord, CleanEndOfSource, StrictError, RecoverableError, TornError, CaptureError
<1> QED  BY <1>1, <1>2, <1>3

\* A producer built over another listing is in step with it.
LEMMA BuildStep ==
  ASSUME RelistInv, Build
  PROVE  /\ CoreInv' /\ UNCHANGED <<pending, delivered, files, call, world>>
         /\ pc = "idle"
         /\ listing' \in Seq(Nat)
         /\ sources' = [i \in DOMAIN listing' |-> Contents[listing'[i]]]
         /\ pc' = "idle" => pending' = <<>>
<1> DEFINE found == ResolveSources(call, world)
<1>1. /\ CoreInv /\ pending = <<>> /\ call \in Calls /\ world \in SUBSET Files
      /\ pc = "idle" /\ UNCHANGED <<pending, delivered, files, call, world, strict, transport, token>>
  BY DEF RelistInv, Build, bound
<1>2. CASE found.error # "none"
  <2>1. /\ UNCHANGED <<sources, idx, reader, decoder, offset, skipTo, done, listing>>
        /\ pc' = "failed"
    BY <1>2 DEF Build, bound, fields
  <2>2. CoreInv'
    BY <1>1, <2>1 DEF CoreInv, FieldsOK, DecoderInSync
  <2> QED  BY <1>1, <2>1, <2>2 DEF RelistInv
<1>3. CASE found.error = "none"
  <2>1. /\ listing' = found.files
        /\ sources' = [i \in DOMAIN listing' |-> Contents[listing'[i]]]
        /\ Rebuild(sources') /\ pc' \in {"finished", "pulling"}
    BY <1>3 DEF Build
  <2>2. sources' \in Inputs
    BY <1>1, <1>3, <2>1, ListedInputsAssumption
  <2>3. Len(sources') \in Nat
    BY <2>2, InputsAssumption
  <2>4. /\ decoder' \in Decoder /\ offset' = 0 /\ reader' = 0
        /\ idx' \in 1 .. Len(sources') + 1 /\ skipTo' \in Nat /\ done' \in BOOLEAN
    <3>1. decoder' \in Decoder /\ offset' = 0
      BY <2>1, FreshDecoderType DEF Rebuild
    <3>2. CASE token = NoToken
      <4>1. Position(1, FALSE, NoSkip)
        BY <2>1, <3>2 DEF Rebuild
      <4>2. reader' = 0 /\ idx' = 1 /\ skipTo' = 0 /\ done' = FALSE
        BY <4>1 DEF Position, NoSkip
      <4>3. idx' \in 1 .. Len(sources') + 1 /\ skipTo' \in Nat
        BY <2>3, <4>2
      <4>4. done' \in BOOLEAN
        BY <4>2
      <4> QED  BY <3>1, <4>2, <4>3, <4>4
    <3>3. CASE token # NoToken
      <4>1. Position(RestoredIdx(sources'), RestoredIdx(sources') > Len(sources'), token.offset)
        BY <2>1, <3>3 DEF Rebuild
      <4>2. RestoredIdx(sources') \in 1 .. Len(sources') + 1 /\ token.offset \in Nat
        BY <1>1, <2>3, <3>3 DEF CoreInv, FieldsOK, RestoredIdx
      <4>3. reader' = 0 /\ idx' = RestoredIdx(sources') /\ skipTo' = token.offset
        BY <4>1 DEF Position
      <4>4. done' = (RestoredIdx(sources') > Len(sources'))
        BY <4>1 DEF Position
      <4>5. done' \in BOOLEAN
        BY <4>4
      <4> QED  BY <3>1, <4>2, <4>3, <4>5
    <3> QED  BY <3>2, <3>3
  <2>5. CoreInv'
    BY <1>1, <2>1, <2>2, <2>4 DEF CoreInv, FieldsOK, DecoderInSync
  <2>6. listing' \in Seq(Nat)
    BY <1>1, <1>3, <2>1, CallResolved
  <2> QED  BY <1>1, <2>1, <2>5, <2>6
<1> QED  BY <1>2, <1>3

\* A batch is handed over with the file each row is from.
LEMMA EmitStep ==
  ASSUME RelistInv, RelistEmit
  PROVE  /\ delivered' \in Seq(Row) /\ files' \in Seq(Nat) /\ Len(files') = Len(delivered')
         /\ \A n \in DOMAIN delivered' : OfItsFile(delivered'[n], files'[n])
<1> DEFINE origins == [n \in DOMAIN pending |-> listing[pending[n].src]]
<1>1. delivered' = delivered \o pending /\ files' = files \o origins
  BY DEF RelistEmit, ScanEmit
<1>2. /\ delivered \in Seq(Row) /\ files \in Seq(Nat) /\ Len(files) = Len(delivered)
      /\ Len(delivered) \in Nat /\ DOMAIN delivered = 1 .. Len(delivered)
  BY DEF RelistInv
<1>3. pending \in Seq(Row) /\ DOMAIN pending = 1 .. Len(pending) /\ Len(pending) \in Nat
  BY DEF RelistInv, AllGenuine
<1>4. ASSUME NEW n \in 1 .. Len(pending)
      PROVE  origins[n] \in Nat /\ OfItsFile(pending[n], origins[n])
  <2> DEFINE row == pending[n]
             file == listing[row.src]
  <2>1. row.src \in DOMAIN sources /\ row \in Range(RowsAt(sources, row.src, row.rec))
        /\ origins[n] = file
    BY <1>3 DEF RelistInv, AllGenuine, Genuine
  <2> HIDE DEF row, origins
  <2>2. sources[row.src] = Contents[file] /\ row.src \in DOMAIN listing
    BY <2>1 DEF RelistInv
  <2>3. file \in Nat
    BY <2>2 DEF RelistInv
  <2> HIDE DEF file
  <2>4. RowsOfFile(file, row.src, row.rec) = RowsAt(sources, row.src, row.rec)
    BY <2>2 DEF RowsOfFile, RowsAt
  <2> QED  BY <2>1, <2>3, <2>4 DEF OfItsFile, row
<1>5. origins \in Seq(Nat) /\ Len(origins) = Len(pending)
  <2>1. origins \in [1 .. Len(pending) -> Nat]
    BY <1>3, <1>4
  <2> QED  BY <1>3, <2>1
<1> HIDE DEF origins
<1>6. /\ delivered' \in Seq(Row) /\ Len(delivered') = Len(delivered) + Len(pending)
      /\ \A i \in 1 .. Len(delivered) + Len(pending) :
           delivered'[i] = IF i <= Len(delivered) THEN delivered[i]
                           ELSE pending[i - Len(delivered)]
  BY <1>1, <1>2, <1>3, ConcatProperties
<1>7. /\ files' \in Seq(Nat) /\ Len(files') = Len(delivered) + Len(pending)
      /\ \A i \in 1 .. Len(delivered) + Len(pending) :
           files'[i] = IF i <= Len(delivered) THEN files[i] ELSE origins[i - Len(delivered)]
  <2>1. /\ files' \in Seq(Nat) /\ Len(files') = Len(files) + Len(origins)
        /\ \A i \in 1 .. Len(files) + Len(origins) :
             files'[i] = IF i <= Len(files) THEN files[i] ELSE origins[i - Len(files)]
    <3>1. files \in Seq(Nat) /\ origins \in Seq(Nat)
      BY <1>2, <1>5
    <3> QED  BY <1>1, <3>1, ConcatProperties
  <2> QED  BY <1>2, <1>5, <2>1
<1>8. ASSUME NEW n \in DOMAIN delivered' PROVE OfItsFile(delivered'[n], files'[n])
  <2>1. n \in 1 .. Len(delivered) + Len(pending)
    BY <1>6
  <2>2. CASE n <= Len(delivered)
    <3>1. n \in DOMAIN delivered /\ delivered'[n] = delivered[n] /\ files'[n] = files[n]
      BY <1>2, <1>6, <1>7, <2>1, <2>2
    <3> QED  BY <3>1 DEF RelistInv
  <2>3. CASE ~ (n <= Len(delivered))
    <3>1. /\ n - Len(delivered) \in 1 .. Len(pending)
          /\ delivered'[n] = pending[n - Len(delivered)] /\ files'[n] = origins[n - Len(delivered)]
      BY <1>2, <1>3, <1>6, <1>7, <2>1, <2>3
    <3> QED  BY <1>4, <3>1
  <2> QED  BY <2>2, <2>3
<1> QED  BY <1>6, <1>7, <1>8

\* One step of the call, action by action.
LEMMA StepRelist == RelistInv /\ [RelistNext]_allVars => RelistInv'
<1> SUFFICES ASSUME RelistInv, [RelistNext]_allVars PROVE RelistInv'
  OBVIOUS
<1>1. ASSUME [Next]_vars, UNCHANGED <<call, world, listing, delivered, files>> PROVE RelistInv'
  BY <1>1, ProducerStep DEF RelistInv
<1>2. CASE Change
  <2>1. world' \subseteq Files
    BY <1>2 DEF Change, RelistInv
  <2> QED  BY <1>2, <2>1, ProducerStep DEF Change, RelistInv, scanVars
<1>3. CASE Bind \/ RelistEnded \/ UNCHANGED allVars
  BY <1>1, <1>3 DEF Bind, RelistEnded, allVars, around, scanVars
<1>4. CASE Build
  <2>1. AllGenuine(sources', pending')
    <3>1. pending' = <<>>
      BY <1>4, BuildStep DEF RelistInv
    <3> QED  BY <3>1, EmptyGenuine
  <2> QED  BY <1>4, <2>1, BuildStep DEF RelistInv
<1>5. CASE RequestMore
  BY <1>1, <1>5 DEF RequestMore, ScanRequest, Next, around
<1>6. CASE RelistPull
  BY <1>1, <1>6 DEF RelistPull, ScanPull, Next, around
<1>7. CASE RelistEmit
  <2>1. Next /\ UNCHANGED <<call, world, listing>>
    BY <1>7 DEF RelistEmit, ScanEmit, Next
  <2> QED  BY <1>7, <2>1, ProducerStep, EmitStep DEF RelistInv
<1> QED  BY <1>2, <1>3, <1>4, <1>5, <1>6, <1>7 DEF RelistNext

\* A call that has not been bound has read nothing.
LEMMA InitRelist == RelistInit => RelistInv
<1> SUFFICES ASSUME RelistInit PROVE RelistInv
  OBVIOUS
<1>1. CoreInv
  BY InitIInv, CoreOfIInv DEF RelistInit, ScanInit
<1>2. /\ pending = <<>> /\ sources = <<>> /\ delivered = <<>> /\ call \in Calls /\ world \subseteq Files
      /\ listing = <<>> /\ files = <<>>
  BY DEF RelistInit, ScanInit, Init
<1>3. sources = [i \in DOMAIN listing |-> Contents[listing[i]]]
  BY <1>2
<1> QED  BY <1>1, <1>2, <1>3, EmptyGenuine DEF RelistInv

\* However the listing moves under the checkpoint (files appear, vanish, or
\* are listed anew for every response), no row is given the peers or the view
\* of another file.
THEOREM RowsKeepTheirFile == RelistSpec => []RowsOfTheirFile
<1>1. RelistInv => RowsOfTheirFile
  BY DEF RelistInv, RowsOfTheirFile, OfItsFile
<1> QED  BY <1>1, InitRelist, StepRelist, PTL DEF RelistSpec

---------------------------------------------------------------------------
(* Where a call stands *)

\* A call that has no listing yet has read nothing, nor has anything to resume;
\* the producer of a stdio call never skips, and none skips past its sources.
\* While no file has changed, what bind time admitted still resolves.
PlaceInv ==
  /\ phase \in {"bind", "bound", "listed", "refused"}
  /\ refusal \in {"none", "missing", "scheme", "url", "argument"}
  /\ changes \in Nat
  /\ phase = "bind" => refusal = "none"
  /\ phase # "listed" => /\ listing = <<>> /\ first = <<>> /\ delivered = <<>>
                         /\ token = NoToken /\ skipTo = 0 /\ pc \in {"idle", "failed"}
  /\ transport = "stdio" => skipTo = 0 /\ token = NoToken
  /\ pc = "pulling" /\ skipTo # 0 => idx <= Len(sources)
  /\ FollowPaths(first, call)
  /\ changes = 0 /\ phase \in {"bound", "listed"} => BindError(call, world) = "none"
  /\ BindForesees /\ NoLocalFallback

\* The producer's own steps.
LEMMA ProducerPlace ==
  ASSUME RelistInv, PlaceInv, RequestMore \/ RelistPull \/ RelistEmit
  PROVE  PlaceInv'
<1>1. UNCHANGED <<call, world, changes, phase, refusal, listing, first>>
  BY DEF RequestMore, RelistPull, RelistEmit, around
<1>2. phase = "listed"
  BY DEF RequestMore, RelistPull, RelistEmit, ScanPull, ScanEmit, Emit, Pull, OpenCurrent, OpenFails,
     Exhausted, ReadRecord, CleanEndOfSource, StrictError, RecoverableError, TornError, CaptureError,
     PlaceInv
<1>3. FollowPaths(first, call)' /\ BindForesees' /\ NoLocalFallback'
  BY <1>1 DEF PlaceInv, FollowPaths, BindForesees, NoLocalFallback
<1>4. sources' = sources /\ transport' = transport
  BY DEF RequestMore, RelistPull, RelistEmit, ScanRequest, ScanPull, ScanEmit, Request, Emit, Pull,
     OpenCurrent, OpenFails, Exhausted, ReadRecord, CleanEndOfSource, StrictError, RecoverableError,
     TornError, CaptureError, bound
<1>5. (transport = "stdio" => skipTo' = 0 /\ token' = NoToken)
      /\ (pc' = "pulling" /\ skipTo' # 0 => idx' <= Len(sources))
  <2>1. CASE RequestMore
    BY <2>1 DEF RequestMore, ScanRequest, Request, PlaceInv, fields
  <2>2. CASE RelistEmit
    BY <2>2 DEF RelistEmit, ScanEmit, Emit, PlaceInv, fields
  <2>3. CASE RelistPull
    <3>1. token' = token /\ pc = "pulling"
      BY <2>3 DEF RelistPull, ScanPull, Pull, OpenCurrent, OpenFails, Exhausted, ReadRecord,
         CleanEndOfSource, StrictError, RecoverableError, TornError, CaptureError
    <3>2. skipTo' = 0 \/ UNCHANGED <<skipTo, idx>>
      BY <2>3 DEF RelistPull, ScanPull, Pull, OpenCurrent, OpenFails, Exhausted, ReadRecord,
         CleanEndOfSource, StrictError, RecoverableError, TornError, CaptureError, Advance, NoSkip,
         fields
    <3> QED  BY <3>1, <3>2 DEF PlaceInv
  <2> QED  BY <2>1, <2>2, <2>3
<1> QED  BY <1>1, <1>2, <1>3, <1>4, <1>5 DEF PlaceInv

\* A build that is refused after all, or one that lists anew.
LEMMA BuildPlace ==
  ASSUME RelistInv, PlaceInv, Build
  PROVE  PlaceInv'
<1> DEFINE found == ResolveSources(call, world)
<1>1. /\ UNCHANGED <<call, world, changes, delivered, transport, token>> /\ pc = "idle"
      /\ call \in Calls /\ phase \in {"bound", "listed"}
      /\ phase = "bound" \/ transport = "http"
  BY DEF Build, bound, RelistInv
<1>2. found.error \in {"none", "missing", "scheme", "url", "argument"}
  BY <1>1, CallResolved
<1>3. found.error = "missing" => changes # 0
  BY <1>1, CallResolved DEF PlaceInv
<1>4. CASE found.error # "none"
  <2>1. /\ UNCHANGED <<sources, idx, skipTo, phase, listing, first>>
        /\ refusal' = found.error /\ pc' = "failed"
    BY <1>4 DEF Build, bound, fields
  <2>2. FollowPaths(first, call)'
    BY <1>1, <2>1 DEF PlaceInv, FollowPaths
  <2>3. BindForesees'
    BY <1>1, <1>3, <2>1 DEF PlaceInv, BindForesees
  <2>4. NoLocalFallback'
    <3>1. phase = "listed" => Foreign(call) = {}
      BY DEF PlaceInv, NoLocalFallback, Foreign
    <3>2. ASSUME found.error = "scheme", changes = 0
          PROVE  \E p \in Foreign(call) : p.wild \/ p.names \subseteq world
      <4>1. PICK p \in Foreign(call) : TRUE
        BY <1>1, <3>2, CallResolved
      <4>2. p \in ToSet(SourcePaths(call)) /\ ~IsRemote(p)
        BY <4>1 DEF Foreign, IsRemote
      <4>3. BindError(call, world) = "none"
        BY <1>1, <3>2 DEF PlaceInv
      <4>4. ResolveLocal(p, world).error = "none"
        BY <4>2, <4>3 DEF BindError
      <4> QED  BY <4>1, <4>4 DEF ResolveLocal, Fails
    <3>3. found.error = "scheme" => Foreign(call) # {}
      BY <1>1, CallResolved
    <3>4. found.error = "scheme"
            => \E p \in Foreign(call) : p.wild \/ changes > 0 \/ p.names \subseteq world
      <4>1. changes \in Nat
        BY DEF PlaceInv
      <4> QED  BY <3>2, <3>3, <4>1
    <3> QED  BY <1>1, <2>1, <3>1, <3>4 DEF NoLocalFallback, Foreign
  <2> QED  BY <1>1, <1>2, <2>1, <2>2, <2>3, <2>4 DEF PlaceInv
<1>5. CASE found.error = "none"
  <2>1. /\ phase' = "listed" /\ listing' = found.files /\ refusal' = refusal
        /\ first' = IF phase = "bound" THEN listing' ELSE first
        /\ Rebuild(sources') /\ pc' = (IF done' THEN "finished" ELSE "pulling")
    BY <1>5 DEF Build
  <2>2. FollowPaths(found.files, call)
    BY <1>1, <1>5, CallResolved DEF RelistInv
  <2>3. FollowPaths(first', call')
    BY <1>1, <2>1, <2>2 DEF PlaceInv
  <2>4. FollowPaths(first, call)'
    BY <2>3 DEF FollowPaths
  <2>5. BindForesees'
    BY <1>1, <2>1 DEF PlaceInv, BindForesees
  <2>6. NoLocalFallback'
    <3>1. Foreign(call) = {}
      BY <1>1, <1>5, CallResolved
    <3>2. refusal # "scheme"
      BY <3>1 DEF PlaceInv, NoLocalFallback, Foreign
    <3> QED  BY <1>1, <2>1, <3>1, <3>2 DEF NoLocalFallback, Foreign
  <2>7. transport = "stdio" => skipTo' = 0
    BY <2>1, <1>1 DEF PlaceInv, Rebuild, Position, NoSkip
  <2>8. ASSUME pc' = "pulling", skipTo' # 0 PROVE idx' <= Len(sources')
    <3>1. ~done' /\ token # NoToken
      BY <2>1, <2>8 DEF Rebuild, Position, NoSkip
    <3>2. idx' = RestoredIdx(sources') /\ ~ (RestoredIdx(sources') > Len(sources'))
      BY <2>1, <3>1, Zenon DEF Rebuild, Position
    <3>3. idx' \in 1 .. Len(sources') + 1 /\ Len(sources') \in Nat
      <4>1. CoreInv'
        BY BuildStep
      <4> QED  BY <4>1, InputsAssumption DEF CoreInv, FieldsOK
    <3> QED  BY <3>1, <3>2, <3>3
  <2> QED  BY <1>1, <1>2, <2>1, <2>4, <2>5, <2>7, <2>8, <2>6 DEF PlaceInv
<1> QED  BY <1>4, <1>5

LEMMA StepPlace == RelistInv /\ PlaceInv /\ [RelistNext]_allVars => PlaceInv'
<1> SUFFICES ASSUME RelistInv, PlaceInv, [RelistNext]_allVars PROVE PlaceInv'
  OBVIOUS
<1>1. ASSUME UNCHANGED <<scanVars, call, listing, first>>
      PROVE  FollowPaths(first, call)' /\ UNCHANGED <<sources, delivered, token, skipTo, pc, idx, transport>>
  BY <1>1 DEF PlaceInv, FollowPaths, scanVars, vars
<1>2. CASE Change
  <2>1. changes' = changes + 1 /\ UNCHANGED <<scanVars, call, phase, refusal, listing, first>>
    BY <1>2 DEF Change
  <2>2. changes' \in Nat \ {0}
    BY <2>1 DEF PlaceInv
  <2>3. NoLocalFallback'
    BY <2>1, <2>2 DEF PlaceInv, NoLocalFallback
  <2> QED  BY <1>1, <2>1, <2>2, <2>3 DEF PlaceInv, BindForesees
<1>3. CASE Bind
  <2>1. /\ UNCHANGED <<scanVars, call, world, changes, listing, first>>
        /\ phase = "bind" /\ refusal' = BindError(call, world)
        /\ phase' = IF refusal' = "none" THEN "bound" ELSE "refused"
    BY <1>3 DEF Bind
  <2>2. refusal' \in {"none", "missing"}
    BY <2>1 DEF BindError
  <2>3. NoLocalFallback'
    BY <2>1, <2>2 DEF NoLocalFallback
  <2> QED  BY <1>1, <2>1, <2>2, <2>3 DEF PlaceInv, BindForesees
<1>4. CASE RelistEnded \/ UNCHANGED allVars
  <2>1. UNCHANGED <<scanVars, around>>
    BY <1>4 DEF RelistEnded, allVars
  <2>2. NoLocalFallback'
    BY <2>1 DEF PlaceInv, NoLocalFallback, around
  <2> QED  BY <1>1, <2>1, <2>2 DEF PlaceInv, BindForesees, around
<1>5. CASE Build
  BY <1>5, BuildPlace
<1>6. CASE RequestMore \/ RelistPull \/ RelistEmit
  BY <1>6, ProducerPlace
<1> QED  BY <1>2, <1>3, <1>4, <1>5, <1>6 DEF RelistNext

LEMMA InitPlace == RelistInit => PlaceInv
BY DEF RelistInit, ScanInit, Init, PlaceInv, BindForesees, NoLocalFallback, FollowPaths, NoSkip

\* The sources are those of the listing, and neither the producer's index nor
\* the one a checkpoint is restored to ever points past them, whatever has
\* become of the files since the checkpoint.
THEOREM ListingsTyped == RelistSpec => []ListingTypeOK
<1>1. RelistInv /\ PlaceInv => ListingTypeOK
  BY DEF RelistInv, PlaceInv, ListingTypeOK, CoreInv, FieldsOK, NoSkip
<1> QED  BY <1>1, InitRelist, InitPlace, StepRelist, StepPlace, PTL DEF RelistSpec

\* A call lists its files in order: sorted within a path, path after path.
THEOREM ListingsOrdered == RelistSpec => []ListedInOrder
<1>1. PlaceInv => ListedInOrder
  BY DEF PlaceInv, ListedInOrder, FollowPaths
<1> QED  BY <1>1, InitRelist, InitPlace, StepRelist, StepPlace, PTL DEF RelistSpec

\* As long as no file has come or gone, a call that bind time admitted is not
\* refused for a missing file.
THEOREM MissingForeseen == RelistSpec => []BindForesees
<1>1. PlaceInv => BindForesees
  BY DEF PlaceInv
<1> QED  BY <1>1, InitRelist, InitPlace, StepRelist, StepPlace, PTL DEF RelistSpec

\* No listing is ever made of a call with a path of another scheme, whatever there
\* is locally under its name.
THEOREM OthersRefused == RelistSpec => []NoLocalFallback
<1>1. PlaceInv => NoLocalFallback
  BY DEF PlaceInv
<1> QED  BY <1>1, InitRelist, InitPlace, StepRelist, StepPlace, PTL DEF RelistSpec

---------------------------------------------------------------------------
(* While the listing only grows at its end *)

\* All sources of one listing are where they were in the next.
Extends(a, b) ==
  /\ a \in Seq(Seq(Record)) /\ b \in Seq(Seq(Record))
  /\ Len(a) <= Len(b)
  /\ \A s \in 1 .. Len(a) : b[s] = a[s]

\* The first n files of the call have been read without loss.
LossUpTo(n) == \A kept \in Nat : kept <= n => LossInv(kept)

\* The scan's own invariants then still hold, as if the sources had always been
\* those of the latest listing; only that everything has arrived is known of
\* the files of the first listing alone.
SteadyInv ==
  steady =>
    /\ first \in Seq(Nat)
    /\ IsPrefix(first, listing)
    /\ ScanInv /\ PositionInv
    /\ NoneDropped => LossUpTo(Len(first))

\* What there was in the shorter listing is there in the longer one.
LEMMA ExtendsKeeps ==
  ASSUME NEW a, NEW b, Extends(a, b)
  PROVE  /\ \A s \in DOMAIN a : s \in DOMAIN b /\ \A j : RowsAt(b, s, j) = RowsAt(a, s, j)
         /\ \A rows : AllGenuine(a, rows) => AllGenuine(b, rows)
         /\ \A kinds : Has(a, kinds) => Has(b, kinds)
<1>1. /\ Len(a) \in Nat /\ Len(b) \in Nat /\ DOMAIN a = 1 .. Len(a) /\ DOMAIN b = 1 .. Len(b)
      /\ \A s \in DOMAIN a : s \in DOMAIN b /\ b[s] = a[s]
  <2>1. Len(a) \in Nat /\ Len(b) \in Nat /\ DOMAIN a = 1 .. Len(a) /\ DOMAIN b = 1 .. Len(b)
    BY DEF Extends
  <2>2. Len(a) <= Len(b) /\ \A s \in 1 .. Len(a) : b[s] = a[s]
    BY DEF Extends
  <2> QED  BY <2>1, <2>2
<1>2. \A s \in DOMAIN a : s \in DOMAIN b /\ \A j : RowsAt(b, s, j) = RowsAt(a, s, j)
  BY <1>1 DEF RowsAt
<1>3. \A row : Genuine(a, row) => Genuine(b, row)
  BY <1>1, <1>2 DEF Genuine
<1>4. \A rows : AllGenuine(a, rows) => AllGenuine(b, rows)
  BY <1>3 DEF AllGenuine
<1>5. \A kinds : Has(a, kinds) => Has(b, kinds)
  BY <1>1 DEF Has
<1> QED  BY <1>2, <1>4, <1>5

\* The producer's own steps, and those that leave it alone.
LEMMA ProducerSteady ==
  ASSUME SteadyInv, [ScanNext]_scanVars, UNCHANGED <<listing, first, steady>>
  PROVE  SteadyInv'
<1> SUFFICES ASSUME steady
             PROVE  /\ first \in Seq(Nat) /\ IsPrefix(first, listing)
                    /\ ScanInv' /\ PositionInv'
                    /\ NoneDropped' => LossUpTo(Len(first))'
  BY DEF SteadyInv, IsPrefix
<1>1. /\ first \in Seq(Nat) /\ IsPrefix(first, listing)
      /\ ScanInv /\ PositionInv /\ (NoneDropped => LossUpTo(Len(first)))
  BY DEF SteadyInv
<1>2. ScanInv' /\ PositionInv'
  BY <1>1, StepOrder, StepPosition, ScanStep DEF ScanInv, FaithInv
<1>3. NoneDropped' => NoneDropped
  BY ScanStep DEF Next, vars, Request, Pull, Emit, Ended, OpenCurrent, OpenFails, Exhausted,
     ReadRecord, CleanEndOfSource, StrictError, RecoverableError, TornError, CaptureError, bound,
     NoneDropped
<1>4. ASSUME NoneDropped, NEW kept \in Nat, kept <= Len(first) PROVE LossInv(kept)'
  BY <1>1, <1>4, StepLoss DEF LossUpTo, ScanInv
<1> QED  BY <1>1, <1>2, <1>3, <1>4 DEF LossUpTo

\* The producer built over a longer listing stands where the checkpoint is, or
\* at the start.
LEMMA BuildExtends ==
  ASSUME RelistInv, PlaceInv, SteadyInv, Build, steady', ResolveSources(call, world).error = "none"
  PROVE  /\ steady /\ pc = "idle" /\ pending = <<>>
         /\ UNCHANGED <<delivered, pending, token, strict, transport>>
         /\ received' = received /\ received = delivered
         /\ sources \in Inputs /\ sources' \in Inputs /\ Extends(sources, sources')
         /\ IsPrefix(listing, listing') /\ listing \in Seq(Nat) /\ listing' \in Seq(Nat)
         /\ Len(listing) = Len(sources)
         /\ reader' = 0 /\ offset' = 0 /\ pc' = (IF done' THEN "finished" ELSE "pulling")
         /\ token = NoToken => idx' = 1 /\ skipTo' = 0 /\ ~done'
         /\ token # NoToken => /\ phase = "listed" /\ transport = "http" /\ first' = first
                               /\ token.idx \in 1 .. Len(sources) + 1
                               /\ idx' = token.idx /\ skipTo' = token.offset
                               /\ done' <=> token.idx > Len(sources')
<1>1. /\ pc = "idle" /\ UNCHANGED <<delivered, pending, token, strict, transport>>
      /\ steady /\ IsPrefix(listing, listing')
      /\ Rebuild(sources') /\ pc' = (IF done' THEN "finished" ELSE "pulling")
      /\ first' = IF phase = "bound" THEN listing' ELSE first
      /\ phase = "bound" \/ (phase = "listed" /\ transport = "http")
  BY DEF Build
<1>2. /\ pending = <<>> /\ delivered \in Seq(Row)
      /\ listing \in Seq(Nat) /\ sources = [i \in DOMAIN listing |-> Contents[listing[i]]]
      /\ sources \in Inputs
  BY <1>1 DEF RelistInv, CoreInv
<1>3. /\ listing' \in Seq(Nat) /\ sources' = [i \in DOMAIN listing' |-> Contents[listing'[i]]]
      /\ CoreInv' /\ sources' \in Inputs
  BY BuildStep DEF CoreInv
<1>4. received' = received /\ received = delivered
  BY <1>1, <1>2 DEF received
<1>5. /\ Len(listing) \in Nat /\ Len(listing') \in Nat /\ Len(listing) <= Len(listing')
      /\ DOMAIN listing = 1 .. Len(listing) /\ DOMAIN listing' = 1 .. Len(listing')
      /\ \A i \in 1 .. Len(listing) : listing[i] = listing'[i]
  BY <1>1, <1>2, <1>3, PrefixIs
<1>6. Len(listing) = Len(sources) /\ Extends(sources, sources')
  <2>1. sources \in Seq(Seq(Record)) /\ sources' \in Seq(Seq(Record))
    BY <1>2, <1>3, InputsAssumption
  <2>2. DOMAIN sources = 1 .. Len(listing) /\ DOMAIN sources' = 1 .. Len(listing')
    BY <1>2, <1>3, <1>5
  <2>3. Len(sources) = Len(listing) /\ Len(sources') = Len(listing')
    BY <1>5, <2>1, <2>2
  <2>4. \A s \in 1 .. Len(listing) : sources'[s] = sources[s]
    <3>1. \A s \in 1 .. Len(listing) : s \in 1 .. Len(listing')
      BY <1>5
    <3>2. \A s \in 1 .. Len(listing) : sources[s] = Contents[listing[s]]
      BY <1>2, <1>5
    <3>3. \A s \in 1 .. Len(listing) : sources'[s] = Contents[listing'[s]]
      BY <1>3, <1>5, <3>1
    <3> QED  BY <1>5, <3>2, <3>3
  <2> QED  BY <1>5, <2>1, <2>3, <2>4 DEF Extends
<1>7. reader' = 0 /\ offset' = 0
  BY <1>1 DEF Rebuild, Position
<1>8. token = NoToken => idx' = 1 /\ skipTo' = 0 /\ ~done'
  BY <1>1 DEF Rebuild, Position, NoSkip
<1>9. ASSUME token # NoToken
      PROVE  /\ phase = "listed" /\ transport = "http" /\ first' = first
             /\ token.idx \in 1 .. Len(sources) + 1
             /\ idx' = token.idx /\ skipTo' = token.offset
             /\ done' <=> token.idx > Len(sources')
  <2>1. phase = "listed" /\ transport = "http" /\ first' = first
    BY <1>1, <1>9 DEF PlaceInv
  <2>2. token.idx \in 1 .. Len(sources) + 1
    BY <1>1, <1>9 DEF SteadyInv, ScanInv, FaithInv, IInv, TypeOK
  <2>3. RestoredIdx(sources') = token.idx
    <3>1. Len(sources) \in Nat /\ Len(sources') \in Nat /\ Len(sources) <= Len(sources')
      BY <1>6 DEF Extends
    <3> QED  BY <2>2, <3>1 DEF RestoredIdx
  <2>4. Position(token.idx, token.idx > Len(sources'), token.offset)
    BY <1>1, <1>9, <2>3 DEF Rebuild
  <2>5. done' <=> token.idx > Len(sources')
    BY <2>4, Zenon DEF Position
  <2> QED  BY <2>1, <2>2, <2>4, <2>5 DEF Position
<1> QED  BY <1>1, <1>2, <1>3, <1>4, <1>5, <1>6, <1>7, <1>8, <1>9

\* What has been received keeps its place before the restored position.
LEMMA BuildOrder ==
  ASSUME RelistInv, PlaceInv, SteadyInv, Build, steady', ResolveSources(call, world).error = "none"
  PROVE  ScanInv' /\ PositionInv'
<1>1. /\ steady /\ pc = "idle" /\ pending = <<>>
      /\ UNCHANGED <<delivered, pending, token, strict, transport>>
      /\ received' = received /\ received = delivered
      /\ sources \in Inputs /\ sources' \in Inputs /\ Extends(sources, sources')
      /\ reader' = 0 /\ offset' = 0 /\ pc' = (IF done' THEN "finished" ELSE "pulling")
      /\ token = NoToken => idx' = 1 /\ skipTo' = 0 /\ ~done'
      /\ token # NoToken => /\ phase = "listed" /\ transport = "http"
                            /\ token.idx \in 1 .. Len(sources) + 1
                            /\ idx' = token.idx /\ skipTo' = token.offset
                            /\ done' <=> token.idx > Len(sources')
  BY BuildExtends
<1>2. ScanInv /\ PositionInv /\ FaithInv /\ IInv
  BY <1>1 DEF SteadyInv, ScanInv, FaithInv
<1>3. /\ sources \in Seq(Seq(Record)) /\ sources' \in Seq(Seq(Record))
      /\ Len(sources) \in Nat /\ Len(sources') \in Nat /\ Len(sources) <= Len(sources')
      /\ DOMAIN sources = 1 .. Len(sources)
  BY <1>1, InputsAssumption DEF Extends
<1>4. IInv'
  <2>1. CoreInv'
    BY BuildStep
  <2>2. token' = NoToken \/ token'.idx \in 1 .. Len(sources') + 1
    <3>1. CASE token = NoToken
      BY <1>1, <3>1
    <3>2. CASE token # NoToken
      BY <1>1, <1>3, <3>2
    <3> QED  BY <3>1, <3>2
  <2>3. (IInv <=> CoreInv /\ (token = NoToken \/ token.idx \in 1 .. Len(sources) + 1))'
    BY CoreOfIInv, PTL
  <2> QED  BY <2>1, <2>2, <2>3
<1>5. FaithInv'
  <2>1. AllGenuine(sources', delivered)
    BY <1>1, <1>2, ExtendsKeeps DEF FaithInv
  <2> QED  BY <1>1, <1>4, <2>1, EmptyGenuine DEF FaithInv
<1>6. PositionInv'
  BY <1>1 DEF PositionInv
<1>7. ASSUME NoneReread' PROVE OrderInv'
  <2>1. OrderInv
    <3>1. NoneReread
      BY <1>1, <1>7, ExtendsKeeps DEF NoneReread
    <3> QED  BY <1>2, <3>1 DEF ScanInv
  <2>2. transport \in {"stdio", "http"} /\ token.offset \in Nat
    BY <1>2 DEF IInv, TypeOK
  <2>3. ASSUME transport = "stdio" PROVE received = <<>> /\ token = NoToken
    <3>1. phase # "listed"
      BY <2>3 DEF Build
    <3> QED  BY <1>1, <3>1 DEF PlaceInv
  <2>4. ASSUME NEW n \in 1 .. Len(received) PROVE Behind(received[n])'
    <3>1. transport = "http"
      BY <2>2, <2>3, <2>4
    <3>2. Covered(received[n])
      BY <1>1, <2>1, <3>1 DEF OrderInv
    <3>3. idx' = token.idx /\ skipTo' = token.offset
      BY <1>1, <3>2 DEF Covered
    <3>4. CASE received[n].src < token.idx
      BY <1>1, <3>3, <3>4 DEF Behind
    <3>5. CASE received[n].src = token.idx /\ UpTo(sources[token.idx], received[n], token.offset)
      <4>1. token.idx \in 1 .. Len(sources)
        <5>1. Genuine(sources, received[n])
          BY <1>1, <1>2 DEF FaithInv, AllGenuine
        <5> QED  BY <1>3, <3>5, <5>1 DEF Genuine
      <4>2. received[n].rec \in 1 .. Len(sources[token.idx]) - 1
        BY <3>5 DEF UpTo
      <4>3. 0 \in 0 .. received[n].rec - 1
        BY <4>2
      <4>4. /\ EndAt(sources[token.idx], received[n].rec) \in Nat
            /\ 0 < EndAt(sources[token.idx], received[n].rec)
        BY <1>1, <4>1, <4>2, <4>3, OffsetsGrow DEF EndAt
      <4>5. EndAt(sources[token.idx], received[n].rec) <= token.offset
        BY <3>5 DEF UpTo
      <4>6. token.offset # 0
        BY <2>2, <4>4, <4>5
      <4>7. sources'[token.idx] = sources[token.idx]
        BY <1>1, <4>1 DEF Extends
      <4> QED  BY <1>1, <3>3, <3>5, <4>6, <4>7 DEF Behind
    <3> QED  BY <3>2, <3>4, <3>5 DEF Covered
  <2>5. pc' = "pulling" /\ skipTo' # 0 => idx' <= Len(sources')
    BY <1>1, <1>3
  <2>6. transport = "stdio" => skipTo' = 0
    BY <1>1, <2>3
  <2> QED  BY <1>1, <2>1, <2>4, <2>5, <2>6 DEF OrderInv
<1> QED  BY <1>5, <1>6, <1>7 DEF ScanInv

\* What has arrived before the checkpoint has arrived before the restored
\* position, as far as the files of the first listing go.
LEMMA BuildLoss ==
  ASSUME RelistInv, PlaceInv, SteadyInv, Build, steady', ResolveSources(call, world).error = "none",
         NoneDropped'
  PROVE  LossUpTo(Len(first))'
<1> SUFFICES ASSUME NEW kept \in Nat, kept <= Len(first') PROVE LossInv(kept)'
  BY DEF LossUpTo
<1>1. /\ steady /\ pc = "idle" /\ pending = <<>>
      /\ UNCHANGED <<delivered, pending, token, strict, transport>>
      /\ received' = received /\ received = delivered
      /\ sources \in Inputs /\ sources' \in Inputs /\ Extends(sources, sources')
      /\ Len(listing) = Len(sources) /\ listing \in Seq(Nat)
      /\ reader' = 0 /\ offset' = 0 /\ pc' = (IF done' THEN "finished" ELSE "pulling")
      /\ token = NoToken => idx' = 1 /\ skipTo' = 0 /\ ~done'
      /\ token # NoToken => /\ phase = "listed" /\ transport = "http" /\ first' = first
                            /\ token.idx \in 1 .. Len(sources) + 1
                            /\ idx' = token.idx /\ skipTo' = token.offset
                            /\ done' <=> token.idx > Len(sources')
  BY BuildExtends
<1>2. Len(sources') \in Nat /\ DOMAIN sources' = 1 .. Len(sources')
      /\ \A s \in DOMAIN sources' : sources'[s] \in Seq(Record)
  BY <1>1 DEF Extends
<1>3. CASE token = NoToken
  <2>1. ASSUME NEW s \in DOMAIN sources', NEW j \in DOMAIN sources'[s]
        PROVE  ~ (s < 1 \/ (s = 1 /\ j < 0))
    <3>1. s \in 1 .. Len(sources') /\ j \in 1 .. Len(sources'[s])
      BY <1>2, <2>1
    <3> QED  BY <3>1
  <2>2. ArrivedBefore(kept, idx, reader, received)'
    BY <1>1, <1>3, <2>1 DEF ArrivedBefore
  <2> QED  BY <1>1, <1>3, <2>2 DEF LossInv
<1>4. CASE token # NoToken
  <2>1. kept <= Len(sources) /\ Len(sources) \in Nat /\ DOMAIN sources = 1 .. Len(sources)
    <3>1. first \in Seq(Nat) /\ IsPrefix(first, listing)
      BY <1>1 DEF SteadyInv
    <3>2. Len(first) <= Len(listing) /\ Len(first) \in Nat /\ Len(listing) \in Nat
      BY <1>1, <3>1, PrefixIs
    <3>3. DOMAIN sources = 1 .. Len(sources)
      BY <1>1 DEF Extends
    <3> QED  BY <1>1, <1>4, <3>2, <3>3
  <2>2. LossInv(kept)
    <3>1. NoneDropped
      BY <1>1, ExtendsKeeps DEF NoneDropped
    <3> QED  BY <1>1, <1>4, <3>1 DEF SteadyInv, LossUpTo
  <2>3. /\ ArrivedBefore(kept, token.idx, 0, delivered)
        /\ ArrivedUpTo(kept, token.idx, token.offset, delivered)
    BY <1>4, <2>2 DEF LossInv
  <2>4. ASSUME NEW s \in DOMAIN sources', s <= kept
        PROVE  s \in DOMAIN sources /\ sources'[s] = sources[s]
               /\ \A j : RowsAt(sources', s, j) = RowsAt(sources, s, j)
    <3>1. s \in DOMAIN sources
      BY <1>2, <2>1, <2>4
    <3>2. sources'[s] = sources[s]
      BY <1>1, <3>1 DEF Extends
    <3>3. \A j : RowsAt(sources', s, j) = RowsAt(sources, s, j)
      BY <1>1, <2>1, <3>1, ExtendsKeeps
    <3> QED  BY <3>1, <3>2, <3>3
  <2>5. \A s \in DOMAIN sources' : \A j \in DOMAIN sources'[s] :
          s < token.idx \/ (s = token.idx /\ j < 0) =>
            (s <= kept => Range(RowsAt(sources', s, j)) \subseteq Range(delivered))
    BY <2>3, <2>4 DEF ArrivedBefore, Arrived
  <2>6. token.idx \in DOMAIN sources' =>
          \A j \in 1 .. Len(sources'[token.idx]) - 1 :
            EndAt(sources'[token.idx], j) <= token.offset =>
              (token.idx <= kept => Range(RowsAt(sources', token.idx, j)) \subseteq Range(delivered))
    BY <2>3, <2>4 DEF ArrivedUpTo, Arrived
  <2>7. /\ ArrivedBefore(kept, idx, reader, received)' /\ ArrivedUpTo(kept, idx, skipTo, received)'
        /\ ArrivedBefore(kept, token.idx, 0, delivered)'
        /\ ArrivedUpTo(kept, token.idx, token.offset, delivered)'
    BY <1>1, <1>4, <2>5, <2>6 DEF ArrivedBefore, ArrivedUpTo, Arrived
  <2> QED  BY <1>1, <1>4, <2>7 DEF LossInv
<1> QED  BY <1>3, <1>4

\* A build that finds nothing to read ends the scan where it is.
LEMMA RefusedSteady ==
  ASSUME RelistInv, SteadyInv, Build, ResolveSources(call, world).error # "none"
  PROVE  SteadyInv'
<1>1. /\ UNCHANGED <<sources, strict, transport, idx, reader, decoder, offset, skipTo, done, pending,
                     token, delivered, listing, first, steady>>
      /\ pc = "idle" /\ pc' = "failed" /\ pending = <<>>
  BY DEF Build, bound, fields, RelistInv
<1>2. received' = received
  BY <1>1 DEF received
<1> SUFFICES ASSUME steady PROVE SteadyInv'
  BY <1>1 DEF SteadyInv
<1>3. /\ first \in Seq(Nat) /\ IsPrefix(first, listing)
      /\ ScanInv /\ PositionInv /\ (NoneDropped => LossUpTo(Len(first)))
  BY DEF SteadyInv
<1>4. IInv'
  BY <1>1, <1>3 DEF ScanInv, FaithInv, IInv, TypeOK, DecoderInSync
<1>5. FaithInv' /\ PositionInv'
  BY <1>1, <1>3, <1>4 DEF ScanInv, FaithInv, PositionInv
<1>6. NoneReread' => OrderInv'
  BY <1>1, <1>2, <1>3 DEF ScanInv, NoneReread, OrderInv
<1>7. ASSUME NoneDropped', NEW kept \in Nat, kept <= Len(first) PROVE LossInv(kept)'
  <2>1. LossInv(kept)
    BY <1>1, <1>3, <1>7 DEF NoneDropped, LossUpTo
  <2>2. token # NoToken => /\ ArrivedBefore(kept, token.idx, 0, delivered)'
                           /\ ArrivedUpTo(kept, token.idx, token.offset, delivered)'
    BY <1>1, <2>1 DEF LossInv, ArrivedBefore, ArrivedUpTo, Arrived
  <2> QED  BY <1>1, <2>1, <2>2 DEF LossInv
<1> QED  BY <1>1, <1>3, <1>5, <1>6, <1>7 DEF SteadyInv, ScanInv, LossUpTo, IsPrefix

LEMMA BuildSteady ==
  ASSUME RelistInv, PlaceInv, SteadyInv, Build
  PROVE  SteadyInv'
<1>1. CASE ResolveSources(call, world).error # "none"
  BY <1>1, RefusedSteady
<1>2. CASE ResolveSources(call, world).error = "none"
  <2> SUFFICES ASSUME steady'
               PROVE  /\ first' \in Seq(Nat) /\ IsPrefix(first', listing')
                      /\ ScanInv' /\ PositionInv'
                      /\ NoneDropped' => LossUpTo(Len(first))'
    BY DEF SteadyInv, IsPrefix
  <2>1. /\ steady /\ listing \in Seq(Nat) /\ listing' \in Seq(Nat) /\ IsPrefix(listing, listing')
    BY <1>2, BuildExtends
  <2>2. first' \in Seq(Nat) /\ IsPrefix(first', listing')
    <3>1. CASE first' = listing'
      BY <2>1, <3>1, PrefixIs
    <3>2. CASE first' = first
      <4>1. first \in Seq(Nat) /\ IsPrefix(first, listing)
        BY <2>1 DEF SteadyInv
      <4>2. /\ Len(first) \in Nat /\ Len(listing) \in Nat /\ Len(listing') \in Nat
            /\ Len(first) <= Len(listing) /\ Len(listing) <= Len(listing')
            /\ \A i \in 1 .. Len(first) : first[i] = listing[i]
            /\ \A i \in 1 .. Len(listing) : listing[i] = listing'[i]
        BY <2>1, <4>1, PrefixIs
      <4>3. Len(first) <= Len(listing') /\ \A i \in 1 .. Len(first) : first[i] = listing'[i]
        BY <4>2
      <4> QED  BY <2>1, <3>2, <4>1, <4>3, PrefixIs
    <3>3. first' = listing' \/ first' = first
      BY <1>2 DEF Build
    <3> QED  BY <3>1, <3>2, <3>3
  <2> QED  BY <1>2, <2>2, BuildOrder, BuildLoss
<1> QED  BY <1>1, <1>2

LEMMA StepSteady == RelistInv /\ PlaceInv /\ SteadyInv /\ [RelistNext]_allVars => SteadyInv'
<1> SUFFICES ASSUME RelistInv, PlaceInv, SteadyInv, [RelistNext]_allVars PROVE SteadyInv'
  OBVIOUS
<1>1. CASE Change \/ Bind \/ RelistEnded \/ UNCHANGED allVars
  <2>1. UNCHANGED <<scanVars, listing, first, steady>>
    BY <1>1 DEF Change, Bind, RelistEnded, allVars, around
  <2> QED  BY <2>1, ProducerSteady
<1>2. CASE Build
  BY <1>2, BuildSteady
<1>3. CASE RequestMore \/ RelistPull \/ RelistEmit
  <2>1. ScanNext /\ UNCHANGED <<listing, first, steady>>
    BY <1>3 DEF RequestMore, RelistPull, RelistEmit, ScanNext, around
  <2> QED  BY <2>1, ProducerSteady
<1> QED  BY <1>1, <1>2, <1>3 DEF RelistNext

LEMMA InitSteady == RelistInit => SteadyInv
<1> SUFFICES ASSUME RelistInit PROVE SteadyInv
  OBVIOUS
<1>1. ScanInit /\ first = <<>> /\ listing = <<>>
  BY DEF RelistInit
<1>2. ScanInv /\ LossLessInv
  BY <1>1, InitOrder, InitLoss
<1>3. IsPrefix(first, listing) /\ first \in Seq(Nat)
  <2>1. first \in Seq(Nat) /\ listing = first
    BY <1>1
  <2>2. Len(first) \in Nat
    BY <2>1
  <2>3. IsPrefix(first, first)
    BY <2>1, <2>2, PrefixIs
  <2> QED  BY <2>1, <2>3
<1> QED  BY <1>2, <1>3 DEF SteadyInv, LossLessInv, LossUpTo

\* While the listing only grows at its end, every file of the first listing is
\* read as if nothing had happened: its rows come in order, none twice unless a
\* bad record can be read again; and all of them, in a call that ends normally,
\* unless it can resume past a torn file.
THEOREM SteadyListingsExact == RelistSpec => []SteadyListingExact
<1>1. RelistInv /\ SteadyInv => SteadyListingExact
  <2> SUFFICES ASSUME RelistInv, SteadyInv, steady
               PROVE  /\ NoneReread => \A m, n \in DOMAIN delivered :
                                         m < n => Precedes(delivered[m], delivered[n])
                      /\ pc = "finished" /\ NoneDropped =>
                           \A s \in DOMAIN first : \A j \in DOMAIN Contents[first[s]] :
                             Range(RowsOfFile(first[s], s, j)) \subseteq Range(delivered)
    BY DEF SteadyListingExact, NoneReread, NoneDropped
  <2>1. NoneReread => \A m, n \in DOMAIN delivered : m < n => Precedes(delivered[m], delivered[n])
    BY DEF SteadyInv, ScanInv, OrderInv, Sorted
  <2>2. ASSUME pc = "finished", NoneDropped, NEW s \in DOMAIN first,
               NEW j \in DOMAIN Contents[first[s]]
        PROVE  Range(RowsOfFile(first[s], s, j)) \subseteq Range(delivered)
    <3>1. /\ first \in Seq(Nat) /\ IsPrefix(first, listing) /\ listing \in Seq(Nat)
          /\ sources = [i \in DOMAIN listing |-> Contents[listing[i]]]
          /\ sources \in Inputs /\ idx \in Nat
      <4>1. sources \in Inputs /\ Len(sources) \in Nat
        BY InputsAssumption DEF RelistInv, CoreInv
      <4>2. idx \in Nat
        BY <4>1 DEF RelistInv, CoreInv, FieldsOK
      <4> QED  BY <4>1, <4>2 DEF RelistInv, SteadyInv
    <3>2. s \in 1 .. Len(first) /\ s \in 1 .. Len(listing) /\ first[s] = listing[s] /\ Len(first) \in Nat
      BY <3>1, PrefixIs
    <3>3. s \in DOMAIN sources /\ sources[s] = Contents[first[s]] /\ s \in 1 .. Len(sources)
          /\ Len(sources) \in Nat
      <4>1. DOMAIN sources = DOMAIN listing /\ DOMAIN listing = 1 .. Len(listing)
        BY <3>1
      <4>2. sources \in Seq(Seq(Record))
        BY <3>1, InputsAssumption
      <4> QED  BY <3>1, <3>2, <4>1, <4>2
    <3>4. LossInv(Len(first))
      BY <2>2, <3>2 DEF SteadyInv, LossUpTo
    <3>5. ArrivedBefore(Len(first), idx, reader, received) /\ idx > Len(sources) /\ pending = <<>>
      BY <2>2, <3>4 DEF LossInv
    <3>6. Arrived(Len(first), s, j, received)
      BY <2>2, <3>1, <3>3, <3>5 DEF ArrivedBefore
    <3>7. Range(RowsAt(sources, s, j)) \subseteq Range(received)
      BY <3>2, <3>6 DEF Arrived
    <3>8. received = delivered
      BY <3>5 DEF received, RelistInv
    <3>9. RowsOfFile(first[s], s, j) = RowsAt(sources, s, j)
      BY <3>3 DEF RowsOfFile, RowsAt
    <3> QED  BY <3>7, <3>8, <3>9
  <2> QED  BY <2>1, <2>2
<1> QED  BY <1>1, InitRelist, InitPlace, InitSteady, StepRelist, StepPlace, StepSteady, PTL
         DEF RelistSpec

=============================================================================

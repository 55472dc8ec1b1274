---------------------------- MODULE ScalarsProofs ---------------------------
(* What the path scalars compute, for lists of any length. *)
EXTENDS Scalars, FiniteSetTheorems, TLAPS

\* The places among the first n whose ASN repeats the one before.
Repeats(n) == {i \in 2 .. n : path[i] = path[i - 1]}

\* The loop has counted the repeats among the places it has passed, and the
\* results are what was counted and found.
IInv ==
  /\ pc \in {"read", "count", "done"}
  /\ path \in Seq(Asns)
  /\ at \in Nat \ {0}
  /\ pc # "count" \/ at = 1 \/ at <= Len(path)
  /\ prepends = Cardinality(Repeats(at))
  /\ pc # "read" /\ cell # Null =>
       path = [i \in DOMAIN cell |-> U32(cell[i])]
  /\ pc = "read" => at = 1
  /\ pc = "count" => cell # Null
  /\ pc = "done" /\ cell # Null =>
       /\ result.prepends = Cardinality(Repeats(Len(path)))
       /\ result.contains = Contains
  /\ cell \in Lists \cup {Null} /\ asn \in Elements \cup {Null}
  /\ DOMAIN result = {"length", "origin", "prepends", "contains", "parsed", "large"}
  /\ cell = Null \/ text = Null
  /\ text \in Texts \cup {Null}
  /\ pc = "done" /\ text # Null =>
       result.parsed = CommunityParse(text) /\ result.large = IsLargeCommunity(text)

\* The repeats are finitely many.
LEMMA RepeatsFinite ==
  ASSUME NEW n \in Nat
  PROVE  IsFiniteSet(Repeats(n)) /\ Cardinality(Repeats(n)) \in Nat
<1>1. IsFiniteSet(2 .. n)
  BY FS_Interval
<1>2. Repeats(n) \in SUBSET (2 .. n)
  BY DEF Repeats
<1> QED
  BY <1>1, <1>2, FS_Subset, FS_CardinalityType

\* There is none before the second place.
LEMMA NoRepeatYet ==
  ASSUME NEW n \in {0, 1}
  PROVE  Repeats(n) = {} /\ Cardinality(Repeats(n)) = 0
<1>1. 2 .. n = {}
  OBVIOUS
<1> QED
  BY <1>1, FS_EmptySet DEF Repeats

\* A window adds its second place to the repeats or adds nothing.
LEMMA RepeatsStep ==
  ASSUME NEW n \in Nat \ {0}
  PROVE  Cardinality(Repeats(n + 1)) =
           IF path[n] = path[n + 1] THEN Cardinality(Repeats(n)) + 1
           ELSE Cardinality(Repeats(n))
<1>1. CASE path[n] = path[n + 1]
  <2>1. Repeats(n + 1) = Repeats(n) \cup {n + 1}
    BY <1>1 DEF Repeats
  <2>2. n + 1 \notin Repeats(n)
    BY DEF Repeats
  <2> QED
    BY <1>1, <2>1, <2>2, RepeatsFinite, FS_AddElement
<1>2. CASE path[n] # path[n + 1]
  <2>1. Repeats(n + 1) = Repeats(n)
    BY <1>2 DEF Repeats
  <2> QED
    BY <1>2, <2>1
<1> QED
  BY <1>1, <1>2

\* Every place of a path either repeats the one before or starts a run.
LEMMA RunsAndRepeats ==
  ASSUME path \in Seq(Asns)
  PROVE  Cardinality(Repeats(Len(path))) = Len(path) - Cardinality(RunStarts)
<1> DEFINE n == Len(path)
<1>1. n \in Nat /\ DOMAIN path = 1 .. n
  OBVIOUS
<1>2. IsFiniteSet(1 .. n) /\ Cardinality(1 .. n) = n
  BY <1>1, FS_Interval
<1>3. Repeats(n) \cap RunStarts = {}
  BY <1>1 DEF Repeats, RunStarts
<1>4. Repeats(n) \cup RunStarts = 1 .. n
  BY <1>1 DEF Repeats, RunStarts
<1>5. IsFiniteSet(RunStarts) /\ Cardinality(RunStarts) \in Nat
  BY <1>2, <1>4, FS_Subset, FS_CardinalityType
<1>6. IsFiniteSet(Repeats(n)) /\ Cardinality(Repeats(n)) \in Nat
  BY <1>1, RepeatsFinite
<1>7. Cardinality(1 .. n) = Cardinality(Repeats(n)) + Cardinality(RunStarts)
  <2>1. Cardinality(1 .. n) = Cardinality(Repeats(n)) + Cardinality(RunStarts)
                              - Cardinality(Repeats(n) \cap RunStarts)
    BY <1>4, <1>5, <1>6, FS_Union, Zenon
  <2>2. Cardinality(Repeats(n) \cap RunStarts) = 0
    BY <1>3, FS_EmptySet, Zenon
  <2> HIDE DEF n
  <2> QED
    BY <1>5, <1>6, <2>1, <2>2
<1>8. Cardinality(Repeats(n)) = n - Cardinality(RunStarts)
  <2> HIDE DEF n
  <2> QED
    BY <1>1, <1>2, <1>5, <1>6, <1>7
<1> QED
  BY <1>8

\* A cell becomes a sequence of ASNs, whatever its elements.
LEMMA ReadType ==
  ASSUME NEW c \in Lists
  PROVE  [i \in DOMAIN c |-> U32(c[i])] \in Seq(Asns)
<1>1. PICK n \in 0 .. MaxLen : c \in [1 .. n -> Elements \cup {Null}]
  BY DEF Lists
<1>2. n \in Nat
  BY <1>1, MaxLenAssumption
<1>3. ASSUME NEW i \in 1 .. n PROVE U32(c[i]) \in Asns
  <2>1. c[i] \in Elements \cup {Null}
    BY <1>1, <1>3
  <2>2. CASE c[i] = Null
    BY <2>2, ModulusAssumption DEF U32, Asns
  <2>3. CASE c[i] # Null
    <3>1. c[i] \in Int
      BY <2>1, <2>3, ElementsAssumption
    <3> QED
      BY <2>3, <3>1, ModulusAssumption DEF U32, Asns
  <2> QED
    BY <2>2, <2>3
<1> QED
  BY <1>1, <1>2, <1>3

\* The count is right before the first window.
LEMMA InitIInv == Init => IInv
<1> SUFFICES ASSUME Init PROVE IInv
  OBVIOUS
<1>1. Repeats(1) = {} /\ Cardinality(Repeats(1)) = 0
  BY NoRepeatYet
<1> QED
  BY <1>1 DEF Init, IInv, NoResult

\* Every step keeps it.
LEMMA NextIInv == IInv /\ [Next]_vars => IInv'
<1> SUFFICES ASSUME IInv, [Next]_vars PROVE IInv'
  OBVIOUS
<1>1. CASE Read
  <2>1. at' = 1 /\ prepends' = 0
    BY <1>1, NoRepeatYet DEF Read, IInv
  <2>2. Repeats(at)' = {}
    BY <2>1 DEF Repeats
  <2>3. (prepends = Cardinality(Repeats(at)))'
    BY <2>1, <2>2, FS_EmptySet
  <2>4. CASE cell = Null
    BY <1>1, <2>1, <2>3, <2>4 DEF Read, IInv
  <2>5. CASE cell # Null
    <3>1. path' = [i \in DOMAIN cell |-> U32(cell[i])] /\ path' \in Seq(Asns)
      BY <1>1, <2>5, ReadType DEF Read, IInv
    <3>2. path' = [i \in DOMAIN cell' |-> U32(cell'[i])]
      BY <1>1, <3>1 DEF Read
    <3> QED
      BY <1>1, <2>1, <2>3, <2>5, <3>1, <3>2 DEF Read, IInv
  <2> QED
    BY <2>4, <2>5
<1>2. CASE CountWindow
  <2>1. prepends' = Cardinality(Repeats(at + 1))
    BY <1>2, RepeatsStep DEF CountWindow, IInv
  <2>2. Repeats(at)' = Repeats(at + 1)
    BY <1>2 DEF CountWindow, Repeats
  <2>3. at' \in Nat \ {0} /\ at' <= Len(path)
    BY <1>2 DEF CountWindow, IInv
  <2> QED
    BY <1>2, <2>1, <2>2, <2>3 DEF CountWindow, IInv
<1>3. CASE Finish
  <2>1. Cardinality(Repeats(at)) = Cardinality(Repeats(Len(path)))
    <3>1. CASE at = Len(path)
      BY <3>1
    <3>2. CASE at = 1 /\ Len(path) = 0
      BY <3>2, NoRepeatYet
    <3>3. Len(path) \in Nat
      BY DEF IInv
    <3> QED
      BY <1>3, <3>1, <3>2, <3>3 DEF Finish, IInv
  <2>2. Repeats(at)' = Repeats(at) /\ Repeats(Len(path))' = Repeats(Len(path))
    BY <1>3 DEF Finish, Repeats
  <2>3. Contains' = Contains
    BY <1>3 DEF Finish, Contains, Asn
  <2>4. text = Null
    BY <1>3 DEF Finish, IInv
  <2> QED
    BY <1>3, <2>1, <2>2, <2>3, <2>4 DEF Finish, IInv
<1>4. CASE ReadCommunity
  <2>1. Repeats(at)' = Repeats(at) /\ cell = Null
    BY <1>4 DEF ReadCommunity, IInv, Repeats
  <2> QED
    BY <1>4, <2>1 DEF ReadCommunity, IInv
<1>5. CASE UNCHANGED vars
  BY <1>5 DEF vars, IInv, Repeats, Contains, Asn
<1> QED
  BY <1>1, <1>2, <1>3, <1>4, <1>5 DEF Next, Done

\* as_path_prepends is the length less the number of runs (aspath.rs:21-24),
\* for paths of every length.
THEOREM PrependsCounted == Spec => []PrependsAreRepeats
<1>1. IInv => PrependsAreRepeats
  BY RunsAndRepeats DEF IInv, PrependsAreRepeats
<1> QED
  BY InitIInv, NextIInv, <1>1, PTL DEF Spec

\* path_contains finds every BIGINT of a list, and over lists of ASNs nothing else,
\* for every width of an ASN; what else it finds has the low bits of a number or a
\* NULL that is no ASN.
THEOREM ContainsCorrect == Spec => []ContainsExact
<1>1. ASSUME IInv PROVE ContainsExact
  <2> SUFFICES ASSUME pc = "done", cell # Null, asn # Null
               PROVE  /\ (\E i \in DOMAIN cell : cell[i] = asn) => result.contains
                      /\ result.contains =>
                           \E i \in DOMAIN cell :
                             \/ cell[i] = asn
                             \/ ~({cell[i], asn} \subseteq Asns) /\ U32(cell[i]) = U32(asn)
    BY DEF ContainsExact
  <2>1. \A e \in Asns : U32(e) = e
    BY NullAssumption, ModulusAssumption DEF U32, Asns
  <2>2. path = [i \in DOMAIN cell |-> U32(cell[i])] /\ DOMAIN path = DOMAIN cell
    BY <1>1 DEF IInv
  <2>3. U32(asn) \in Int
    <3>1. asn \in Elements
      BY <1>1 DEF IInv
    <3> QED
      BY <3>1, ElementsAssumption, ModulusAssumption DEF U32
  <2>4. result.contains = \E i \in DOMAIN path : path[i] = U32(asn)
    BY <1>1, <2>3, NullAssumption DEF IInv, Contains, Asn
  <2>5. result.contains <=> \E i \in DOMAIN cell : U32(cell[i]) = U32(asn)
    BY <2>2, <2>4
  <2>6. \A i \in DOMAIN cell : {cell[i], asn} \subseteq Asns /\ U32(cell[i]) = U32(asn) => cell[i] = asn
    BY <2>1
  <2> QED
    BY <2>5, <2>6, Zenon
<1> QED
  BY InitIInv, NextIInv, <1>1, PTL DEF Spec

\* What is written in numbers is left as it is by trimming.
LEMMA CanonicalTrimmed ==
  ASSUME NEW numbers \in Seq(Asns)
  PROVE  /\ Len(Trim(Canonical(numbers))) = Len(numbers)
         /\ \A i \in 1 .. Len(numbers) :
              /\ IsU32(Trim(Canonical(numbers))[i])
              /\ Trim(Canonical(numbers))[i].number = numbers[i]
<1>1. Len(numbers) \in Nat /\ DOMAIN numbers = 1 .. Len(numbers)
  OBVIOUS
<1>2. \A i \in 1 .. Len(numbers) : numbers[i] \in Asns
  OBVIOUS
<1>3. Len(Canonical(numbers)) = Len(numbers) /\ Len(Trim(Canonical(numbers))) = Len(numbers)
  BY <1>1 DEF Canonical, Trim
<1>4. ASSUME NEW i \in 1 .. Len(numbers)
      PROVE  IsU32(Trim(Canonical(numbers))[i]) /\ Trim(Canonical(numbers))[i].number = numbers[i]
  <2> DEFINE part == [kind |-> "digits", number |-> numbers[i], left |-> FALSE, right |-> FALSE]
             trimmed == [part EXCEPT !.left = i # 1 /\ @, !.right = i # Len(numbers) /\ @]
  <2>1. i \in DOMAIN Canonical(numbers) /\ Canonical(numbers)[i] = part
    BY <1>1 DEF Canonical
  <2>2. Trim(Canonical(numbers))[i] = trimmed
    BY <1>3, <2>1 DEF Trim
  <2>3. trimmed.kind = "digits" /\ trimmed.number = numbers[i]
    OBVIOUS
  <2>4. trimmed.left = FALSE /\ trimmed.right = FALSE
    <3>1. trimmed.left = (i # 1 /\ FALSE) /\ trimmed.right = (i # Len(numbers) /\ FALSE)
      OBVIOUS
    <3> QED
      BY <3>1
  <2>5. numbers[i] < Modulus
    BY <1>2, ModulusAssumption DEF Asns
  <2> HIDE DEF trimmed
  <2> QED
    BY <2>2, <2>3, <2>4, <2>5 DEF IsU32
<1> QED
  BY <1>3, <1>4

\* Communities are told apart and read back, for every width of their numbers.
THEOREM CommunitiesReadBack == Spec => []CommunitiesToldApart
<1>1. ASSUME IInv PROVE CommunitiesToldApart
  <2> SUFFICES ASSUME pc = "done", text # Null
               PROVE  /\ ~(result.parsed.valid /\ result.large)
                      /\ \A a, b \in Asns :
                           text = Canonical(<<a, b>>) =>
                             result.parsed = [asn |-> a, value |-> b, valid |-> TRUE]
                      /\ \A a, b, c \in Asns : text = Canonical(<<a, b, c>>) => result.large
    BY DEF CommunitiesToldApart
  <2>1. result.parsed = CommunityParse(text) /\ result.large = IsLargeCommunity(text)
    BY <1>1 DEF IInv
  <2>2. ~(result.parsed.valid /\ result.large)
    <3>1. CASE Len(Trim(text)) = 2
      <4>1. ~IsLargeCommunity(text)
        BY <3>1 DEF IsLargeCommunity
      <4> QED
        BY <2>1, <4>1, Zenon
    <3>2. CASE Len(Trim(text)) # 2
      <4>1. CommunityParse(text) = [asn |-> 0, value |-> 0, valid |-> FALSE]
        BY <3>2 DEF CommunityParse
      <4> QED
        BY <2>1, <4>1
    <3> QED
      BY <3>1, <3>2
  <2>3. ASSUME NEW a \in Asns, NEW b \in Asns, text = Canonical(<<a, b>>)
        PROVE  result.parsed = [asn |-> a, value |-> b, valid |-> TRUE]
    <3> DEFINE numbers == <<a, b>>
    <3>1. numbers \in Seq(Asns) /\ Len(numbers) = 2 /\ numbers[1] = a /\ numbers[2] = b
      OBVIOUS
    <3> HIDE DEF numbers
    <3>2. /\ Len(Trim(text)) = 2
          /\ \A i \in 1 .. 2 : IsU32(Trim(text)[i]) /\ Trim(text)[i].number = numbers[i]
      BY <2>3, <3>1, CanonicalTrimmed DEF numbers
    <3> QED
      <4>1. /\ IsU32(Trim(text)[1]) /\ Trim(text)[1].number = a
            /\ IsU32(Trim(text)[2]) /\ Trim(text)[2].number = b
        BY <3>1, <3>2
      <4>2. CommunityParse(text) = [asn |-> a, value |-> b, valid |-> TRUE]
        BY <3>2, <4>1 DEF CommunityParse
      <4> QED
        BY <2>1, <4>2, Zenon
  <2>4. ASSUME NEW a \in Asns, NEW b \in Asns, NEW c \in Asns, text = Canonical(<<a, b, c>>)
        PROVE  result.large
    <3> DEFINE numbers == <<a, b, c>>
    <3>1. numbers \in Seq(Asns) /\ Len(numbers) = 3
      OBVIOUS
    <3> HIDE DEF numbers
    <3>2. Len(Trim(text)) = 3 /\ \A i \in 1 .. 3 : IsU32(Trim(text)[i])
      BY <2>4, <3>1, CanonicalTrimmed DEF numbers
    <3> QED
      BY <2>1, <3>2 DEF IsLargeCommunity
  <2> QED
    BY <2>2, <2>3, <2>4
<1> QED
  BY InitIInv, NextIInv, <1>1, PTL DEF Spec
=============================================================================

---------------------------- MODULE TransferProofs ----------------------------
(***************************************************************************)
(* Proofs about Transfer, for any names, any number of files and chunks.       *)
(***************************************************************************)
EXTENDS Transfer, SequenceTheorems, WellFoundedInduction, TLAPS

------------------------------------------------------------------------------
(* Places in a stream of frames. *)

IsShape(shape) == shape \in Seq(Seq(Nat \ {0}))

IsPlace(shape, at) ==
  /\ at \in [section : Nat, item : Nat, chunk : Nat]
  /\ \/ /\ at.section \in 1 .. Len(shape)
        /\ at.item \in 1 .. Len(shape[at.section])
        /\ at.chunk \in 1 .. shape[at.section][at.item]
     \/ at.section = Len(shape) + 1 /\ at.item = 1 /\ at.chunk = 1

Spot(i, k) == [item |-> i, chunk |-> k]

\* Where somebody at that place is in the s-th section.
Reached(shape, at, s) ==
  IF at.section < s THEN Spot(1, 1)
  ELSE IF at.section = s THEN Spot(at.item, at.chunk)
       ELSE Spot(Len(shape[s]) + 1, 1)

\* The place after one in the same section.
Advanced(section, at) ==
  IF at.chunk < section[at.item] THEN Spot(at.item, at.chunk + 1) ELSE Spot(at.item + 1, 1)

\* There is a next section, and what is skipped on the way to it is empty.
LEMMA NextSectionIs ==
  ASSUME NEW shape, IsShape(shape), NEW s \in 1 .. Len(shape) + 1
  PROVE  /\ NextSection(shape, s) \in s .. Len(shape) + 1
         /\ NextSection(shape, s) <= Len(shape) => shape[NextSection(shape, s)] # <<>>
         /\ \A empty \in s .. NextSection(shape, s) - 1 : shape[empty] = <<>>
<1> DEFINE Stops == {n \in s .. Len(shape) + 1 : n <= Len(shape) => shape[n] # <<>>}
<1>1. Len(shape) \in Nat
  BY LenProperties DEF IsShape
<1>2. Stops \subseteq Nat /\ Len(shape) + 1 \in Stops
  BY <1>1
<1>3. PICK n \in Stops : \A m \in Stops : ~(<<m, n>> \in OpToRel(<, Nat))
  <2> HIDE DEF Stops
  <2> QED BY <1>2, WFMin, NatLessThanWellFounded, Zenon
<1>4. \A m \in Stops : ~(m < n)
  BY <1>2, <1>3 DEF OpToRel
<1>5. \A empty \in s .. n - 1 : shape[empty] = <<>>
  BY <1>1, <1>4
<1> QED BY <1>5 DEF NextSection

\* Going on at a later section: everything before it has been passed.
LEMMA FromReached ==
  ASSUME NEW shape, IsShape(shape), NEW s \in 1 .. Len(shape) + 1
  PROVE  /\ IsPlace(shape, From(shape, s))
         /\ \A p \in 1 .. Len(shape) :
              Reached(shape, From(shape, s), p) =
                IF p < s THEN Spot(Len(shape[p]) + 1, 1) ELSE Spot(1, 1)
<1> DEFINE n == NextSection(shape, s)
<1>1. Len(shape) \in Nat
  BY LenProperties DEF IsShape
<1>2. /\ n \in s .. Len(shape) + 1
      /\ n <= Len(shape) => shape[n] # <<>>
      /\ \A empty \in s .. n - 1 : shape[empty] = <<>>
  BY NextSectionIs
<1>3. \A p \in 1 .. Len(shape) :
        /\ shape[p] \in Seq(Nat \ {0}) /\ Len(shape[p]) \in Nat
        /\ shape[p] = <<>> <=> Len(shape[p]) = 0
        /\ \A i \in 1 .. Len(shape[p]) : shape[p][i] \in Nat \ {0}
  BY ElementOfSeq, LenProperties, EmptySeq DEF IsShape
<1>4. From(shape, s) = [section |-> n, item |-> 1, chunk |-> 1]
  BY DEF From
<1> HIDE DEF n
<1>5. IsPlace(shape, From(shape, s))
  <2>1. CASE n = Len(shape) + 1
    BY <1>1, <1>4, <2>1 DEF IsPlace
  <2>2. CASE n \in 1 .. Len(shape)
    <3>1. Len(shape[n]) \in Nat /\ Len(shape[n]) # 0
      BY <1>1, <1>2, <1>3, <2>2
    <3>2. shape[n][1] \in Nat \ {0}
      BY <1>3, <2>2, <3>1
    <3> QED BY <1>4, <2>2, <3>1, <3>2 DEF IsPlace
  <2> QED BY <1>1, <1>2, <2>1, <2>2
<1>6. ASSUME NEW p \in 1 .. Len(shape)
      PROVE  Reached(shape, From(shape, s), p) =
               IF p < s THEN Spot(Len(shape[p]) + 1, 1) ELSE Spot(1, 1)
  <2>1. p \in s .. n - 1 => Len(shape[p]) = 0
    BY <1>2, <1>3
  <2>2. n \in Nat /\ s \in Nat /\ s <= n
    BY <1>1, <1>2
  <2> QED BY <1>4, <2>1, <2>2 DEF Reached
<1> QED BY <1>5, <1>6

LEMMA StartReached ==
  ASSUME NEW shape, IsShape(shape)
  PROVE  /\ IsPlace(shape, Start(shape))
         /\ \A p \in 1 .. Len(shape) : Reached(shape, Start(shape), p) = Spot(1, 1)
<1>1. Len(shape) \in Nat
  BY LenProperties DEF IsShape
<1> QED BY <1>1, FromReached DEF Start

\* One frame on: its own section advances, the others stay where they are.
LEMMA AfterReached ==
  ASSUME NEW shape, IsShape(shape), NEW at, IsPlace(shape, at), ~AtEnd(shape, at)
  PROVE  /\ IsPlace(shape, After(shape, at))
         /\ \A p \in 1 .. Len(shape) :
              Reached(shape, After(shape, at), p) =
                IF p = at.section THEN Advanced(shape[p], at) ELSE Reached(shape, at, p)
<1> DEFINE s == at.section
<1>1. Len(shape) \in Nat
  BY LenProperties DEF IsShape
<1>2. /\ s \in 1 .. Len(shape) /\ at.item \in 1 .. Len(shape[s])
      /\ at.chunk \in 1 .. shape[s][at.item]
      /\ at = [section |-> s, item |-> at.item, chunk |-> at.chunk]
  BY <1>1 DEF IsPlace, AtEnd
<1>3. /\ Len(shape[s]) \in Nat
      /\ \A i \in 1 .. Len(shape[s]) : shape[s][i] \in Nat \ {0}
  BY <1>2, ElementOfSeq, LenProperties DEF IsShape
<1> DEFINE next == After(shape, at)
<1>4. CASE at.chunk < shape[s][at.item]
  <2>1. next = [section |-> s, item |-> at.item, chunk |-> at.chunk + 1]
    BY <1>2, <1>4 DEF After
  <2> QED BY <1>1, <1>2, <1>3, <1>4, <2>1 DEF IsPlace, Reached, Advanced, Spot
<1>5. CASE ~(at.chunk < shape[s][at.item]) /\ at.item < Len(shape[s])
  <2>1. next = [section |-> s, item |-> at.item + 1, chunk |-> 1]
    BY <1>2, <1>5 DEF After
  <2> QED BY <1>1, <1>2, <1>3, <1>5, <2>1 DEF IsPlace, Reached, Advanced, Spot
<1>6. CASE ~(at.chunk < shape[s][at.item]) /\ ~(at.item < Len(shape[s]))
  <2>1. next = From(shape, s + 1)
    BY <1>6 DEF After
  <2>2. s + 1 \in 1 .. Len(shape) + 1 /\ at.item = Len(shape[s])
    BY <1>1, <1>2, <1>3, <1>6
  <2>3. IsPlace(shape, next)
    BY <2>1, <2>2, FromReached
  <2>4. ASSUME NEW p \in 1 .. Len(shape)
        PROVE  Reached(shape, next, p) =
                 IF p = s THEN Advanced(shape[p], at) ELSE Reached(shape, at, p)
    <3>1. Reached(shape, next, p) = IF p < s + 1 THEN Spot(Len(shape[p]) + 1, 1) ELSE Spot(1, 1)
      BY <2>1, <2>2, FromReached
    <3> QED BY <1>1, <1>2, <1>6, <2>2, <3>1 DEF Reached, Advanced
  <2> QED BY <2>3, <2>4
<1> QED BY <1>4, <1>5, <1>6

\* At the end every section has been passed.
LEMMA EndReached ==
  ASSUME NEW shape, IsShape(shape), NEW at, IsPlace(shape, at), AtEnd(shape, at)
  PROVE  \A p \in 1 .. Len(shape) : Reached(shape, at, p) = Spot(Len(shape[p]) + 1, 1)
<1>1. Len(shape) \in Nat
  BY LenProperties DEF IsShape
<1> QED BY <1>1 DEF IsPlace, AtEnd, Reached

\* One place comes before another.
Precedes(a, b) ==
  \/ a.section < b.section
  \/ a.section = b.section /\ a.item < b.item
  \/ a.section = b.section /\ a.item = b.item /\ a.chunk < b.chunk

\* A sender goes forward, so it stays ahead of a receiver.
LEMMA AfterIsLater ==
  ASSUME NEW shape, IsShape(shape), NEW a, IsPlace(shape, a), ~AtEnd(shape, a)
  PROVE  Precedes(a, After(shape, a))
<1>1. Len(shape) \in Nat /\ a.section \in 1 .. Len(shape)
  BY LenProperties DEF IsShape, IsPlace, AtEnd
<1>2. a \in [section : Nat, item : Nat, chunk : Nat]
  BY DEF IsPlace
<1>3. CASE After(shape, a) = From(shape, a.section + 1)
  <2>1. NextSection(shape, a.section + 1) \in a.section + 1 .. Len(shape) + 1
    BY <1>1, NextSectionIs
  <2> QED BY <1>1, <1>3, <2>1 DEF From, Precedes
<1>4. CASE After(shape, a) # From(shape, a.section + 1)
  BY <1>2, <1>4 DEF After, Precedes
<1> QED BY <1>3, <1>4

LEMMA PrecedesTransitive ==
  ASSUME NEW shape, NEW a, NEW b, NEW c, IsPlace(shape, a), IsPlace(shape, b),
         IsPlace(shape, c), Precedes(a, b), Precedes(b, c)
  PROVE  Precedes(a, c)
BY DEF IsPlace, Precedes

\* A receiver behind the sender has a frame to take, and does not overtake it.
LEMMA AfterIsNext ==
  ASSUME NEW shape, IsShape(shape), NEW a, IsPlace(shape, a), NEW b, IsPlace(shape, b),
         Precedes(a, b)
  PROVE  ~AtEnd(shape, a) /\ (After(shape, a) = b \/ Precedes(After(shape, a), b))
<1>1. Len(shape) \in Nat
  BY LenProperties DEF IsShape
<1>2. /\ a = [section |-> a.section, item |-> a.item, chunk |-> a.chunk]
      /\ b = [section |-> b.section, item |-> b.item, chunk |-> b.chunk]
      /\ a.section \in Nat /\ a.item \in Nat /\ a.chunk \in Nat
      /\ b.section \in Nat /\ b.item \in Nat /\ b.chunk \in Nat
  BY DEF IsPlace
<1>3. \A p \in 1 .. Len(shape) :
        /\ Len(shape[p]) \in Nat
        /\ shape[p] = <<>> => Len(shape[p]) = 0
        /\ \A i \in 1 .. Len(shape[p]) : shape[p][i] \in Nat
  BY ElementOfSeq, LenProperties DEF IsShape
<1>4. /\ b.section \in 1 .. Len(shape) + 1 /\ b.item >= 1 /\ b.chunk >= 1
      /\ b.section <= Len(shape) => b.item \in 1 .. Len(shape[b.section])
      /\ b.section <= Len(shape) => b.chunk \in 1 .. shape[b.section][b.item]
      /\ b.section > Len(shape) => b.item = 1 /\ b.chunk = 1
  BY <1>1 DEF IsPlace
<1>5. ~AtEnd(shape, a)
  BY <1>1, <1>2, <1>4 DEF AtEnd, IsPlace, Precedes
<1>6. a.section \in 1 .. Len(shape) /\ a.item \in 1 .. Len(shape[a.section])
  BY <1>1, <1>5 DEF IsPlace, AtEnd
<1>7. CASE a.chunk < shape[a.section][a.item]
  <2>1. After(shape, a) = [section |-> a.section, item |-> a.item, chunk |-> a.chunk + 1]
    BY <1>2, <1>7 DEF After
  <2> QED BY <1>2, <1>5, <2>1 DEF Precedes
<1>8. CASE ~(a.chunk < shape[a.section][a.item]) /\ a.item < Len(shape[a.section])
  <2>1. After(shape, a) = [section |-> a.section, item |-> a.item + 1, chunk |-> 1]
    BY <1>2, <1>8 DEF After
  <2>2. ~(b.section = a.section /\ b.item = a.item)
    BY <1>2, <1>3, <1>4, <1>6, <1>8 DEF Precedes
  <2> QED BY <1>2, <1>4, <1>5, <2>1, <2>2 DEF Precedes
<1>9. CASE ~(a.chunk < shape[a.section][a.item]) /\ ~(a.item < Len(shape[a.section]))
  <2> DEFINE n == NextSection(shape, a.section + 1)
  <2>1. After(shape, a) = [section |-> n, item |-> 1, chunk |-> 1]
    BY <1>9 DEF After, From
  <2>2. /\ n \in a.section + 1 .. Len(shape) + 1
        /\ \A empty \in a.section + 1 .. n - 1 : shape[empty] = <<>>
    BY <1>1, <1>6, NextSectionIs
  <2> HIDE DEF n
  <2>3. b.section > a.section
    <3>1. CASE b.section = a.section /\ b.item > a.item
      BY <1>2, <1>3, <1>4, <1>6, <1>9, <3>1
    <3>2. CASE b.section = a.section /\ b.item = a.item /\ b.chunk > a.chunk
      BY <1>2, <1>3, <1>4, <1>6, <1>9, <3>2
    <3> QED BY <1>2, <3>1, <3>2 DEF Precedes
  <2>4. b.section >= n
    <3> SUFFICES ASSUME b.section < n PROVE FALSE
      BY <1>1, <1>2, <2>2
    <3>1. b.section \in a.section + 1 .. n - 1 /\ b.section \in 1 .. Len(shape)
      BY <1>1, <1>2, <1>6, <2>2, <2>3
    <3>2. Len(shape[b.section]) = 0
      BY <1>3, <2>2, <3>1
    <3> QED BY <1>4, <3>1, <3>2
  <2> QED BY <1>1, <1>2, <1>4, <1>5, <2>1, <2>2, <2>4 DEF Precedes
<1> QED BY <1>7, <1>8, <1>9

------------------------------------------------------------------------------
(* Collecting files. *)

FileNamesSent == AnswerNames \cup {NoName}
AnswerFile == [name : FileNamesSent, size : Nat]
HeldFile == [name : FileNamesSent, expected : Nat, size : Nat]

\* Files of which something was received by that place in the files.
Begun(r) == IF r.chunk > 1 THEN r.item ELSE r.item - 1

AllDifferent(all) == \A i, j \in 1 .. Len(all) : i # j => all[i].name # all[j].name

\* What is held is one file to a name that has come: as many files as have begun
\* unless names repeat, and then each of them so far as it was received.
OneToAName(files, r, all) ==
  /\ AllDifferent(files)
  /\ \A j \in 1 .. Begun(r) : \E n \in 1 .. Len(files) : files[n].name = all[j].name
AsManyAsBegun(files, r, all) ==
  /\ Len(files) <= Begun(r)
  /\ AllDifferent(all) => Len(files) = Begun(r)
EachAsReceived(files, r, all) ==
  Len(files) = Begun(r) =>
    \A j \in 1 .. Begun(r) :
      files[j] = [name |-> all[j].name, expected |-> all[j].size,
                  size |-> IF j < r.item THEN all[j].size ELSE r.chunk - 1]
\* A file declares the length of one of its name.
EachDeclared(files, all) ==
  \A n \in 1 .. Len(files) :
    /\ files[n].expected = 0 => files[n].size = 0
    /\ \E j \in 1 .. Len(all) : files[n].name = all[j].name /\ files[n].expected = all[j].size

Gathered(files, r, all) ==
  /\ OneToAName(files, r, all) /\ AsManyAsBegun(files, r, all)
  /\ EachAsReceived(files, r, all) /\ EachDeclared(files, all)

\* What Add does with a chunk of a name it has not seen, and of one it has.
AddedAsNew(files, f) ==
  /\ \A n \in 1 .. Len(files) : files[n].name # f.name
  /\ Len(Add(files, f)) = Len(files) + 1
  /\ \A n \in 1 .. Len(files) : Add(files, f)[n] = files[n]
  /\ Add(files, f)[Len(files) + 1] = [name |-> f.name, expected |-> f.count, size |-> f.size]
AddedTo(files, f, i) ==
  /\ files[i].name = f.name
  /\ Len(Add(files, f)) = Len(files)
  /\ \A n \in 1 .. Len(files) : n # i => Add(files, f)[n] = files[n]
  /\ Add(files, f)[i] =
       [name |-> f.name, size |-> files[i].size + f.size,
        expected |-> IF files[i].expected = 0 THEN f.count ELSE files[i].expected]

LEMMA AddsNewOrTo ==
  ASSUME NEW files \in Seq(HeldFile), NEW f,
         f.name \in FileNamesSent, f.size \in Nat, f.count \in Nat, AllDifferent(files)
  PROVE  /\ Add(files, f) \in Seq(HeldFile)
         /\ AddedAsNew(files, f) \/ \E i \in 1 .. Len(files) : AddedTo(files, f, i)
<1>1. DOMAIN files = 1 .. Len(files) /\ Len(files) \in Nat
  BY LenProperties
<1>2. \A n \in 1 .. Len(files) : files[n] \in HeldFile
  BY ElementOfSeq
<1> DEFINE same == {i \in DOMAIN files : files[i].name = f.name}
<1>3. CASE same = {}
  <2> DEFINE new == [name |-> f.name, expected |-> f.count, size |-> f.size]
  <2>1. Add(files, f) = Append(files, new)
    BY <1>3 DEF Add
  <2>2. new \in HeldFile
    BY DEF HeldFile
  <2>3. \A n \in 1 .. Len(files) : files[n].name # f.name
    BY <1>1, <1>3
  <2> HIDE DEF new
  <2>4. /\ Append(files, new) \in Seq(HeldFile)
        /\ Len(Append(files, new)) = Len(files) + 1
        /\ \A n \in 1 .. Len(files) : Append(files, new)[n] = files[n]
        /\ Append(files, new)[Len(files) + 1] = new
    BY <2>2, AppendProperties
  <2> QED BY <2>1, <2>3, <2>4 DEF new, AddedAsNew
<1>4. CASE same # {}
  <2> DEFINE i == CHOOSE i \in same : TRUE
  <2>1. i \in same
    BY <1>4
  <2>2. Add(files, f) = [files EXCEPT ![i].size = @ + f.size,
                                      ![i].expected = IF @ = 0 THEN f.count ELSE @]
    BY <1>4 DEF Add
  <2>3. i \in 1 .. Len(files) /\ files[i].name = f.name
    BY <1>1, <2>1
  <2> HIDE DEF i
  <2> DEFINE size == files[i].size + f.size
             expected == IF files[i].expected = 0 THEN f.count ELSE files[i].expected
             more == [name |-> f.name, expected |-> expected, size |-> size]
  <2>4. Add(files, f) = [files EXCEPT ![i] = more]
    <3>1. files[i] \in HeldFile /\ files[i].name = f.name
      BY <1>2, <2>3
    <3>2. [files[i] EXCEPT !.size = @ + f.size, !.expected = IF @ = 0 THEN f.count ELSE @] =
            [files[i] EXCEPT !.size = size, !.expected = expected]
      BY <3>1 DEF HeldFile
    <3> HIDE DEF size, expected
    <3>3. [files[i] EXCEPT !.size = size, !.expected = expected] = more
      <4>1. [files[i] EXCEPT !.size = size] =
              [name |-> f.name, expected |-> files[i].expected, size |-> size]
        BY <3>1 DEF HeldFile
      <4>2. [files[i] EXCEPT !.size = size, !.expected = expected] =
              [[files[i] EXCEPT !.size = size] EXCEPT !.expected = expected]
        OBVIOUS
      <4>3. [[name |-> f.name, expected |-> files[i].expected, size |-> size]
               EXCEPT !.expected = expected] = more
        OBVIOUS
      <4> QED BY <4>1, <4>2, <4>3
    <3> HIDE DEF more
    <3>4. [files EXCEPT ![i].size = @ + f.size, ![i].expected = IF @ = 0 THEN f.count ELSE @] =
            [files EXCEPT ![i] = [files[i] EXCEPT !.size = @ + f.size,
                                                  !.expected = IF @ = 0 THEN f.count ELSE @]]
      BY <1>1, <2>3
    <3> QED BY <2>2, <3>2, <3>3, <3>4
  <2>5. more \in HeldFile
    <3>1. files[i].size \in Nat /\ files[i].expected \in Nat
      BY <1>2, <2>3 DEF HeldFile
    <3>2. files[i].size + f.size \in Nat
      BY <3>1
    <3>3. (IF files[i].expected = 0 THEN f.count ELSE files[i].expected) \in Nat
      BY <3>1
    <3> QED BY <3>2, <3>3 DEF HeldFile
  <2> HIDE DEF more
  <2>6. /\ [files EXCEPT ![i] = more] \in Seq(HeldFile)
        /\ Len([files EXCEPT ![i] = more]) = Len(files)
        /\ [files EXCEPT ![i] = more][i] = more
        /\ \A n \in 1 .. Len(files) : n # i => [files EXCEPT ![i] = more][n] = files[n]
    BY <1>1, <2>3, <2>5, ExceptSeq
  <2> QED BY <2>3, <2>4, <2>6 DEF more, AddedTo
<1> QED BY <1>3, <1>4

\* A chunk of a file, in its turn.
LEMMA Gather ==
  ASSUME NEW all \in Seq(AnswerFile), NEW files \in Seq(HeldFile),
         NEW i \in 1 .. Len(all), NEW k \in 1 .. FramesIn(all[i].size),
         NEW f, f.name = all[i].name, f.count = all[i].size,
         f.size = (IF all[i].size = 0 THEN 0 ELSE 1),
         Gathered(files, Spot(i, k), all)
  PROVE  /\ Add(files, f) \in Seq(HeldFile)
         /\ Gathered(Add(files, f),
                     IF k < FramesIn(all[i].size) THEN Spot(i, k + 1) ELSE Spot(i + 1, 1), all)
<1> DEFINE more == Add(files, f)
           r == Spot(i, k)
           next == IF k < FramesIn(all[i].size) THEN Spot(i, k + 1) ELSE Spot(i + 1, 1)
           known == \E n \in 1 .. Len(files) : files[n].name = all[i].name
<1>1. /\ Len(all) \in Nat /\ Len(files) \in Nat
      /\ \A j \in 1 .. Len(all) : all[j] \in AnswerFile
      /\ \A n \in 1 .. Len(files) : files[n] \in HeldFile
  BY LenProperties, ElementOfSeq
<1>2. /\ all[i].size \in Nat /\ all[i].name \in FileNamesSent
      /\ FramesIn(all[i].size) = IF all[i].size = 0 THEN 1 ELSE all[i].size
      /\ i \in Nat /\ i >= 1 /\ k \in Nat /\ k >= 1
  BY <1>1 DEF AnswerFile, FramesIn
<1>3. /\ r.item = i /\ r.chunk = k /\ Begun(r) = (IF k > 1 THEN i ELSE i - 1)
      /\ Begun(next) = i
      /\ next.item = (IF k < FramesIn(all[i].size) THEN i ELSE i + 1)
      /\ next.chunk = (IF k < FramesIn(all[i].size) THEN k + 1 ELSE 1)
  BY <1>2 DEF Begun, Spot
<1>4. AllDifferent(files)
  BY DEF Gathered, OneToAName
<1>8. f.name \in FileNamesSent /\ f.size \in Nat /\ f.count \in Nat
  BY <1>2
<1> HIDE DEF r, next
<1>5. more \in Seq(HeldFile)
  BY <1>4, <1>8, AddsNewOrTo
<1>6. CASE ~known
  <2>1. /\ Len(more) = Len(files) + 1
        /\ \A n \in 1 .. Len(files) : more[n] = files[n]
        /\ more[Len(files) + 1] = [name |-> f.name, expected |-> f.count, size |-> f.size]
    <3>1. \A n \in 1 .. Len(files) : files[n].name # f.name
      BY <1>6
    <3> HIDE DEF known
    <3>2. AddedAsNew(files, f) \/ \E n \in 1 .. Len(files) : AddedTo(files, f, n)
      BY <1>4, <1>8, AddsNewOrTo
    <3> QED BY <3>1, <3>2 DEF AddedAsNew, AddedTo
  <2> HIDE DEF more
  <2>2. k = 1
    BY <1>2, <1>3, <1>6 DEF Gathered, OneToAName, r
  <2>3. OneToAName(more, next, all)
    <3>1. AllDifferent(more)
      <4>1. \A n \in 1 .. Len(files) : more[n].name # more[Len(files) + 1].name
        BY <1>6, <2>1
      <4> HIDE DEF known
      <4> QED BY <1>1, <1>4, <2>1, <4>1 DEF AllDifferent
    <3>2. ASSUME NEW j \in 1 .. i
          PROVE  \E n \in 1 .. Len(more) : more[n].name = all[j].name
      <4>1. CASE j = i
        <5>1. more[Len(files) + 1].name = all[i].name /\ Len(files) + 1 \in 1 .. Len(more)
          BY <1>1, <2>1
        <5> QED BY <4>1, <5>1
      <4>2. CASE j # i
        <5>1. j \in 1 .. Begun(r)
          BY <1>2, <1>3, <2>2, <4>2
        <5>2. PICK n \in 1 .. Len(files) : files[n].name = all[j].name
          BY <5>1 DEF Gathered, OneToAName, r
        <5> QED BY <1>1, <2>1, <5>2
      <4> QED BY <4>1, <4>2
    <3> QED BY <1>3, <3>1, <3>2 DEF OneToAName
  <2>4. AsManyAsBegun(more, next, all)
    BY <1>1, <1>2, <1>3, <2>1, <2>2 DEF Gathered, AsManyAsBegun, r
  <2>5. EachAsReceived(more, next, all)
    <3> SUFFICES ASSUME Len(more) = i, NEW j \in 1 .. i
                 PROVE  more[j] = [name |-> all[j].name, expected |-> all[j].size,
                                   size |-> IF j < next.item THEN all[j].size ELSE next.chunk - 1]
      BY <1>3 DEF EachAsReceived
    <3>1. CASE j = i
      <4>1. Len(files) + 1 = i /\ more[i] = [name |-> f.name, expected |-> f.count, size |-> f.size]
        BY <2>1
      <4>2. f.size = (IF i < next.item THEN all[i].size ELSE next.chunk - 1)
        BY <1>2, <1>3, <2>2
      <4> QED BY <3>1, <4>1, <4>2
    <3>2. CASE j # i
      <4>1. j \in 1 .. Begun(r) /\ Len(files) = Begun(r) /\ j < i
        BY <1>1, <1>2, <1>3, <2>1, <2>2, <3>2
      <4>2. files[j] = [name |-> all[j].name, expected |-> all[j].size, size |-> all[j].size]
        BY <1>3, <4>1 DEF Gathered, EachAsReceived, r
      <4> QED BY <1>1, <1>2, <1>3, <2>1, <4>1, <4>2
    <3> QED BY <3>1, <3>2
  <2>6. EachDeclared(more, all)
    <3>1. EachDeclared(files, all)
      BY DEF Gathered
    <3>2. more[Len(files) + 1].expected = 0 => more[Len(files) + 1].size = 0
      BY <2>1
    <3>3. /\ more[Len(files) + 1].name = all[i].name
          /\ more[Len(files) + 1].expected = all[i].size
      BY <2>1
    <3> SUFFICES ASSUME NEW n \in 1 .. Len(files) + 1
                 PROVE  /\ more[n].expected = 0 => more[n].size = 0
                        /\ \E j \in 1 .. Len(all) :
                             more[n].name = all[j].name /\ more[n].expected = all[j].size
      BY <2>1 DEF EachDeclared
    <3>4. CASE n = Len(files) + 1
      BY <3>2, <3>3, <3>4
    <3>5. CASE n # Len(files) + 1
      <4>1. n \in 1 .. Len(files) /\ more[n] = files[n]
        BY <1>1, <2>1, <3>5
      <4> QED BY <3>1, <4>1 DEF EachDeclared
    <3> QED BY <3>4, <3>5
  <2> QED BY <1>5, <2>3, <2>4, <2>5, <2>6 DEF Gathered, next, more
<1>7. CASE known
  <2>1. PICK m \in 1 .. Len(files) :
          /\ files[m].name = f.name
          /\ Len(more) = Len(files)
          /\ \A n \in 1 .. Len(files) : n # m => more[n] = files[n]
          /\ more[m] = [name |-> f.name, size |-> files[m].size + f.size,
                        expected |-> IF files[m].expected = 0 THEN f.count ELSE files[m].expected]
    <3>1. \E n \in 1 .. Len(files) : files[n].name = f.name
      BY <1>7
    <3> HIDE DEF known
    <3>2. AddedAsNew(files, f) \/ \E n \in 1 .. Len(files) : AddedTo(files, f, n)
      BY <1>4, <1>8, AddsNewOrTo
    <3> QED BY <3>1, <3>2 DEF AddedAsNew, AddedTo
  <2> HIDE DEF more
  <2>2. \A n \in 1 .. Len(files) : more[n].name = files[n].name
    BY <2>1
  <2>3. OneToAName(more, next, all)
    <3>1. AllDifferent(more)
      BY <1>4, <2>1, <2>2 DEF AllDifferent
    <3>2. \A j \in 1 .. i : \E n \in 1 .. Len(more) : more[n].name = all[j].name
      BY <1>2, <1>3, <2>1, <2>2 DEF Gathered, OneToAName, r
    <3> QED BY <1>3, <3>1, <3>2 DEF OneToAName
  <2>4. Len(files) = Begun(r) => \A j \in 1 .. Begun(r) : files[j].name = all[j].name
    BY DEF Gathered, EachAsReceived, r
  <2>5. AsManyAsBegun(more, next, all)
    <3>1. Len(files) <= Begun(r) /\ (AllDifferent(all) => Len(files) = Begun(r))
      BY DEF Gathered, AsManyAsBegun, r
    <3>2. ASSUME AllDifferent(all)
          PROVE  k > 1
      <4>1. m \in 1 .. Begun(r) /\ all[m].name = all[i].name
        BY <2>1, <2>4, <3>1, <3>2
      <4> QED BY <1>1, <1>2, <1>3, <3>2, <4>1 DEF AllDifferent
    <3> QED BY <1>1, <1>2, <1>3, <2>1, <3>1, <3>2 DEF AsManyAsBegun
  <2>6. EachAsReceived(more, next, all)
    <3> SUFFICES ASSUME Len(more) = i
                 PROVE  \A j \in 1 .. i :
                          more[j] = [name |-> all[j].name, expected |-> all[j].size,
                                     size |-> IF j < next.item THEN all[j].size ELSE next.chunk - 1]
      BY <1>3 DEF EachAsReceived
    <3>1. Len(files) = i /\ Begun(r) = i /\ k > 1
      BY <1>1, <1>2, <1>3, <2>1 DEF Gathered, AsManyAsBegun, r
    <3>2. m = i
      BY <1>2, <1>4, <2>1, <2>4, <3>1 DEF AllDifferent
    <3>3. \A j \in 1 .. i :
            files[j] = [name |-> all[j].name, expected |-> all[j].size,
                        size |-> IF j < i THEN all[j].size ELSE k - 1]
      BY <1>3, <3>1 DEF Gathered, EachAsReceived, r
    <3>4. more[i] = [name |-> all[i].name, expected |-> all[i].size, size |-> k]
      <4>1. files[i] = [name |-> all[i].name, expected |-> all[i].size, size |-> k - 1]
        BY <1>2, <3>3
      <4>2. f.size = 1 /\ all[i].size > 0
        BY <1>2, <3>1
      <4>3. more[i] = [name |-> f.name, size |-> files[i].size + f.size,
                       expected |-> IF files[i].expected = 0 THEN f.count ELSE files[i].expected]
        BY <2>1, <3>2
      <4> QED BY <1>2, <4>1, <4>2, <4>3
    <3>5. k = (IF i < next.item THEN all[i].size ELSE next.chunk - 1)
      BY <1>2, <1>3, <3>1
    <3>6. \A j \in 1 .. i : j # i => more[j] = files[j] /\ j < i /\ j < next.item
      BY <1>2, <1>3, <2>1, <3>1, <3>2
    <3> QED BY <3>3, <3>4, <3>5, <3>6
  <2>7. EachDeclared(more, all)
    <3>1. EachDeclared(files, all)
      BY DEF Gathered
    <3>2. files[m] \in HeldFile
      BY <1>1
    <3>3. /\ more[m].expected = 0 => more[m].size = 0
          /\ \E j \in 1 .. Len(all) :
               more[m].name = all[j].name /\ more[m].expected = all[j].size
      <4>1. /\ files[m].expected \in Nat /\ files[m].size \in Nat
            /\ files[m].expected = 0 => files[m].size = 0
            /\ \E j \in 1 .. Len(all) :
                 files[m].name = all[j].name /\ files[m].expected = all[j].size
        BY <3>1, <3>2 DEF EachDeclared, HeldFile
      <4>2. /\ more[m].name = all[i].name /\ more[m].name = files[m].name
            /\ more[m].size = files[m].size + f.size
            /\ more[m].expected =
                 IF files[m].expected = 0 THEN all[i].size ELSE files[m].expected
        BY <2>1
      <4>3. CASE files[m].expected = 0
        <5>1. more[m].expected = all[i].size /\ more[m].size = f.size
          BY <1>8, <4>1, <4>2, <4>3
        <5> QED BY <4>2, <5>1
      <4>4. CASE files[m].expected # 0
        BY <4>1, <4>2, <4>4
      <4> QED BY <4>3, <4>4
    <3>4. ASSUME NEW n \in 1 .. Len(files), n # m
          PROVE  more[n] = files[n]
      BY <2>1, <3>4
    <3>5. Len(more) = Len(files)
      BY <2>1
    <3> SUFFICES ASSUME NEW n \in 1 .. Len(files)
                 PROVE  /\ more[n].expected = 0 => more[n].size = 0
                        /\ \E j \in 1 .. Len(all) :
                             more[n].name = all[j].name /\ more[n].expected = all[j].size
      BY <3>5 DEF EachDeclared
    <3>6. CASE n = m
      BY <3>3, <3>6
    <3>7. CASE n # m
      BY <3>1, <3>4, <3>7 DEF EachDeclared
    <3> QED BY <3>6, <3>7
  <2> QED BY <1>5, <2>3, <2>5, <2>6, <2>7 DEF Gathered, next, more
<1> QED BY <1>6, <1>7

------------------------------------------------------------------------------
(* What the tables of the two sides have in common. *)

PartsFit(m) ==
  LET parts == MethodTable[m].parts IN
  /\ Len(parts) \in 0 .. 3 /\ DOMAIN parts = 1 .. Len(parts)
  /\ \A p, q \in DOMAIN parts : parts[p].arm = parts[q].arm => p = q
  /\ \A p \in DOMAIN parts :
       /\ parts[p].arm # "head"
       /\ parts[p].fewest \in Nat /\ parts[p].least \in Nat /\ parts[p].most \in Nat

\* Both know the head, the end and the arms; what tells the files of an arm apart on
\* the server does so on the client.
ArmsFit(m) ==
  LET parts == MethodTable[m].parts
      h == Fake!HandlerTable[m]
      fold(p) == h.arms[parts[p].arm].fold
  IN /\ h.head = MethodTable[m].head /\ h.head \in BOOLEAN
     /\ h.last = MethodTable[m].last
     /\ h.last => DOMAIN parts # {} /\ \A p \in DOMAIN parts : parts[p].least = 1
     /\ "head" \notin DOMAIN h.arms
     /\ \A p \in DOMAIN parts :
          /\ parts[p].arm \in DOMAIN h.arms
          /\ \/ fold(p) = "single" /\ parts[p].most = 1
             \/ fold(p) = "byName" /\ parts[p].placed
             \/ /\ fold(p) = "byId" /\ m = "Render" /\ h.head
                /\ parts[p].arm = "asset" /\ ~parts[p].placed
             \/ /\ fold(p) = "keyed" /\ m = "CompleteWithAttachments"
                /\ parts[p].arm = "attachment" /\ ~parts[p].placed
                /\ h.arms.attachment.after = {} /\ h.arms.attachment.before = {}

\* What a handler wants before an arm the client sends before it, and sends at all.
OrderFits(m) ==
  LET parts == MethodTable[m].parts
      h == Fake!HandlerTable[m]
  IN \A p \in DOMAIN parts :
       /\ \A a \in h.arms[parts[p].arm].before :
            a \in DOMAIN h.arms /\ \A q \in DOMAIN parts : parts[q].arm = a => p < q
       /\ \A a \in h.arms[parts[p].arm].after :
            /\ ~h.bytes
            /\ \E q \in 1 .. p - 1 :
                 /\ parts[q].arm = a
                 /\ \/ parts[q].least = 1
                    \/ m = "GenerateVideo" /\ a = "first_frame" /\ parts[p].arm = "last_frame"

\* What a handler wants in the end the client has to send, or refuses to begin without.
EndFits(m) ==
  LET parts == MethodTable[m].parts
      h == Fake!HandlerTable[m]
  IN /\ \A a \in h.needs :
          \E p \in DOMAIN parts : parts[p].arm = a /\ (parts[p].least = 1 \/ a = "points")
     /\ h.full \subseteq PartArms(m)
     /\ h.either # {} \/ h.ids => h.head
     /\ h.ids => m = "Render" /\ "asset" \in PartArms(m)
     /\ \A a \in h.either :
          /\ a \in DOMAIN h.arms
          /\ \/ /\ MethodTable[m].alternative = {FALSE}
                /\ \E p \in DOMAIN parts : parts[p].arm = a /\ parts[p].least = 1
             \/ MethodTable[m].alternative = {TRUE} /\ a \notin PartArms(m)
             \/ m = "Save" /\ a = "sample" /\ a \in PartArms(m) /\ ~h.bytes
     /\ m = "CompleteWithAttachments" =>
          h.needs = {} /\ h.full = {} /\ h.either = {} /\ ~h.ids /\ ~h.last

Agree(m) == PartsFit(m) /\ ArmsFit(m) /\ OrderFits(m) /\ EndFits(m)

\* Three whose params may stand for a file, step by step.
LEMMA EndOfGenerateTalking == EndFits("GenerateTalking")
<1> DEFINE h == Fake!GenerateTalkingVideo
           parts == GenerateTalking.parts
<1>1. MethodTable["GenerateTalking"] = GenerateTalking /\ Fake!HandlerTable["GenerateTalking"] = h
  BY DEF MethodTable, Fake!HandlerTable
<1>2. /\ DOMAIN parts = 1 .. 2
      /\ parts[1].arm = "portrait" /\ parts[1].least = 1
      /\ parts[2].arm = "audio" /\ parts[2].least = 1
  BY DEF GenerateTalking, Request, One, Optional, Part
<1>3. GenerateTalking.alternative = {FALSE}
  BY DEF GenerateTalking, Request
<1>4. /\ h.head /\ h.needs = {"portrait"} /\ h.full = {"portrait"} /\ h.either = {"audio"}
      /\ ~h.ids /\ h.bytes = TRUE /\ DOMAIN h.arms = {"audio"} \cup {"portrait"}
  BY DEF Fake!GenerateTalkingVideo, Fake!Handler
<1> HIDE DEF h, parts
<1>5. PartArms("GenerateTalking") = {"portrait", "audio"}
  BY <1>1, <1>2 DEF PartArms, parts
<1>6. \A p \in DOMAIN parts : p = 1 \/ p = 2
  BY <1>2
<1>7. \A a \in h.needs : \E p \in DOMAIN parts : parts[p].arm = a /\ parts[p].least = 1
  BY <1>2, <1>4
<1>8. h.full \subseteq PartArms("GenerateTalking") /\ h.head /\ ~h.ids
  BY <1>4, <1>5
<1>9. \A a \in h.either : a = "audio" /\ a \in DOMAIN h.arms
  BY <1>4
<1>10. parts[2].arm = "audio" /\ parts[2].least = 1 /\ 2 \in DOMAIN parts
  BY <1>2, <1>4, <1>5
<1> HIDE DEF h
<1> QED BY <1>1, <1>3, <1>7, <1>8, <1>9, <1>10 DEF EndFits, parts

LEMMA EndOfGenerateTalkingSpeech == EndFits("GenerateTalkingSpeech")
<1> DEFINE h == Fake!GenerateTalkingVideo
           parts == GenerateTalkingSpeech.parts
<1>1. MethodTable["GenerateTalkingSpeech"] = GenerateTalkingSpeech /\ Fake!HandlerTable["GenerateTalkingSpeech"] = h
  BY DEF MethodTable, Fake!HandlerTable
<1>2. /\ DOMAIN parts = 1 .. 1
      /\ parts[1].arm = "portrait" /\ parts[1].least = 1
  BY DEF GenerateTalkingSpeech, Request, One, Optional, Part
<1>3. GenerateTalkingSpeech.alternative = {TRUE}
  BY DEF GenerateTalkingSpeech, Request
<1>4. /\ h.head /\ h.needs = {"portrait"} /\ h.full = {"portrait"} /\ h.either = {"audio"}
      /\ ~h.ids /\ h.bytes = TRUE /\ DOMAIN h.arms = {"audio"} \cup {"portrait"}
  BY DEF Fake!GenerateTalkingVideo, Fake!Handler
<1> HIDE DEF h, parts
<1>5. PartArms("GenerateTalkingSpeech") = {"portrait"}
  BY <1>1, <1>2 DEF PartArms, parts
<1>6. \A p \in DOMAIN parts : p = 1
  BY <1>2
<1>7. \A a \in h.needs : \E p \in DOMAIN parts : parts[p].arm = a /\ parts[p].least = 1
  BY <1>2, <1>4
<1>8. h.full \subseteq PartArms("GenerateTalkingSpeech") /\ h.head /\ ~h.ids
  BY <1>4, <1>5
<1>9. \A a \in h.either : a = "audio" /\ a \in DOMAIN h.arms
  BY <1>4
<1>10. "audio" \notin PartArms("GenerateTalkingSpeech")
  BY <1>2, <1>4, <1>5
<1> HIDE DEF h
<1> QED BY <1>1, <1>3, <1>7, <1>8, <1>9, <1>10 DEF EndFits, parts

LEMMA EndOfSave == EndFits("Save")
<1> DEFINE h == Fake!SaveVoice
           parts == Save.parts
<1>1. MethodTable["Save"] = Save /\ Fake!HandlerTable["Save"] = h
  BY DEF MethodTable, Fake!HandlerTable
<1>2. /\ DOMAIN parts = 1 .. 1
      /\ parts[1].arm = "sample" /\ parts[1].least = 0
  BY DEF Save, Request, One, Optional, Part
<1>3. Save.alternative = BOOLEAN
  BY DEF Save, Request
<1>4. /\ h.head /\ h.needs = {} /\ h.full = {"sample"} /\ h.either = {"sample"}
      /\ ~h.ids /\ h.bytes = FALSE /\ DOMAIN h.arms = {"sample"} \cup {"sample"}
  BY DEF Fake!SaveVoice, Fake!Handler
<1> HIDE DEF h, parts
<1>5. PartArms("Save") = {"sample"}
  BY <1>1, <1>2 DEF PartArms, parts
<1>6. \A p \in DOMAIN parts : p = 1
  BY <1>2
<1>7. \A a \in h.needs : \E p \in DOMAIN parts : parts[p].arm = a /\ parts[p].least = 1
  BY <1>2, <1>4
<1>8. h.full \subseteq PartArms("Save") /\ h.head /\ ~h.ids
  BY <1>4, <1>5
<1>9. \A a \in h.either : a = "sample" /\ a \in DOMAIN h.arms
  BY <1>4
<1>10. "sample" \in PartArms("Save") /\ ~h.bytes
  BY <1>2, <1>4, <1>5
<1> HIDE DEF h
<1> QED BY <1>1, <1>3, <1>7, <1>8, <1>9, <1>10 DEF EndFits, parts

LEMMA MethodsAre ==
  Methods = {
    "TransformImage", "TransformVideo", "GeneratePreview", "ProbeMedia",
    "RemoveBackground", "RestoreFace", "ColorizeFace", "InpaintFace",
    "UpscaleImage", "Generate", "Edit", "Outpaint", "RefineFaces", "Render",
    "GenerateVideo", "GenerateTalking", "GenerateTalkingSpeech", "Plan",
    "ComposeSong", "TranscribeScore", "Design", "Save", "Speak", "ClusterHdbscan",
    "ProjectUmap", "Transcribe", "TranscribeRecording", "ExtractContent",
    "CompleteWithAttachments"}
BY DEF Methods, MethodTable

\* Method by method.
LEMMA TablesAgree == \A m \in Methods : Agree(m)
<1> USE RequestAssumption
    DEF PartsFit, ArmsFit, OrderFits, EndFits, PartArms, Request, Part, One, Optional, Many,
        Numbers, References, Fake!Handler, Fake!File, Fake!Arm
<1>1. Agree("TransformImage")
  <2>1. MethodTable["TransformImage"] = TransformImage /\ Fake!HandlerTable["TransformImage"] = Fake!TransformImage
    BY DEF MethodTable, Fake!HandlerTable
  <2> QED BY <2>1 DEF Agree, TransformImage, Fake!TransformImage
<1>2. Agree("TransformVideo")
  <2>1. MethodTable["TransformVideo"] = TransformVideo /\ Fake!HandlerTable["TransformVideo"] = Fake!TransformVideo
    BY DEF MethodTable, Fake!HandlerTable
  <2> QED BY <2>1 DEF Agree, TransformVideo, Fake!TransformVideo
<1>3. Agree("GeneratePreview")
  <2>1. MethodTable["GeneratePreview"] = GeneratePreview /\ Fake!HandlerTable["GeneratePreview"] = Fake!GeneratePreview
    BY DEF MethodTable, Fake!HandlerTable
  <2> QED BY <2>1 DEF Agree, GeneratePreview, Fake!GeneratePreview
<1>4. Agree("ProbeMedia")
  <2>1. MethodTable["ProbeMedia"] = ProbeMedia /\ Fake!HandlerTable["ProbeMedia"] = Fake!ProbeMedia
    BY DEF MethodTable, Fake!HandlerTable
  <2> QED BY <2>1 DEF Agree, ProbeMedia, Fake!ProbeMedia
<1>5. Agree("RemoveBackground")
  <2>1. MethodTable["RemoveBackground"] = RemoveBackground /\ Fake!HandlerTable["RemoveBackground"] = Fake!RemoveBackground
    BY DEF MethodTable, Fake!HandlerTable
  <2> QED BY <2>1 DEF Agree, RemoveBackground, Fake!RemoveBackground
<1>6. Agree("RestoreFace")
  <2>1. MethodTable["RestoreFace"] = RestoreFace /\ Fake!HandlerTable["RestoreFace"] = Fake!RestoreFace
    BY DEF MethodTable, Fake!HandlerTable
  <2> QED BY <2>1 DEF Agree, RestoreFace, Fake!RestoreFace
<1>7. Agree("ColorizeFace")
  <2>1. MethodTable["ColorizeFace"] = ColorizeFace /\ Fake!HandlerTable["ColorizeFace"] = Fake!ColorizeFace
    BY DEF MethodTable, Fake!HandlerTable
  <2> QED BY <2>1 DEF Agree, ColorizeFace, Fake!ColorizeFace
<1>8. Agree("InpaintFace")
  <2>1. MethodTable["InpaintFace"] = InpaintFace /\ Fake!HandlerTable["InpaintFace"] = Fake!InpaintFace
    BY DEF MethodTable, Fake!HandlerTable
  <2> QED BY <2>1 DEF Agree, InpaintFace, Fake!InpaintFace
<1>9. Agree("UpscaleImage")
  <2>1. MethodTable["UpscaleImage"] = UpscaleImage /\ Fake!HandlerTable["UpscaleImage"] = Fake!UpscaleImage
    BY DEF MethodTable, Fake!HandlerTable
  <2> QED BY <2>1 DEF Agree, UpscaleImage, Fake!UpscaleImage
<1>10. Agree("Generate")
  <2>1. MethodTable["Generate"] = Generate /\ Fake!HandlerTable["Generate"] = Fake!GenerateImage
    BY DEF MethodTable, Fake!HandlerTable
  <2> QED BY <2>1 DEF Agree, Generate, Fake!GenerateImage
<1>11. Agree("Edit")
  <2>1. MethodTable["Edit"] = Edit /\ Fake!HandlerTable["Edit"] = Fake!EditImage
    BY DEF MethodTable, Fake!HandlerTable
  <2> QED BY <2>1 DEF Agree, Edit, Fake!EditImage
<1>12. Agree("Outpaint")
  <2>1. MethodTable["Outpaint"] = Outpaint /\ Fake!HandlerTable["Outpaint"] = Fake!OutpaintImage
    BY DEF MethodTable, Fake!HandlerTable
  <2> QED BY <2>1 DEF Agree, Outpaint, Fake!OutpaintImage
<1>13. Agree("RefineFaces")
  <2>1. MethodTable["RefineFaces"] = RefineFaces /\ Fake!HandlerTable["RefineFaces"] = Fake!RefineFaces
    BY DEF MethodTable, Fake!HandlerTable
  <2>2. PartsFit("RefineFaces")
    BY <2>1 DEF RefineFaces, Fake!RefineFaces
  <2>3. ArmsFit("RefineFaces")
    BY <2>1 DEF RefineFaces, Fake!RefineFaces
  <2>4. OrderFits("RefineFaces")
    BY <2>1, SMTT(20) DEF RefineFaces, Fake!RefineFaces
  <2>5. EndFits("RefineFaces")
    BY <2>1 DEF RefineFaces, Fake!RefineFaces
  <2> QED BY <2>2, <2>3, <2>4, <2>5 DEF Agree
<1>14. Agree("Render")
  <2>1. MethodTable["Render"] = Render /\ Fake!HandlerTable["Render"] = Fake!Render
    BY DEF MethodTable, Fake!HandlerTable
  <2> QED BY <2>1 DEF Agree, Render, Fake!Render
<1>15. Agree("GenerateVideo")
  <2>1. MethodTable["GenerateVideo"] = GenerateVideo /\ Fake!HandlerTable["GenerateVideo"] = Fake!GenerateVideo
    BY DEF MethodTable, Fake!HandlerTable
  <2> QED BY <2>1 DEF Agree, GenerateVideo, Fake!GenerateVideo
<1>16. Agree("GenerateTalking")
  <2>1. MethodTable["GenerateTalking"] = GenerateTalking /\ Fake!HandlerTable["GenerateTalking"] = Fake!GenerateTalkingVideo
    BY DEF MethodTable, Fake!HandlerTable
  <2>2. PartsFit("GenerateTalking")
    BY <2>1 DEF GenerateTalking, Fake!GenerateTalkingVideo
  <2>3. ArmsFit("GenerateTalking")
    BY <2>1 DEF GenerateTalking, Fake!GenerateTalkingVideo
  <2>4. OrderFits("GenerateTalking")
    BY <2>1 DEF GenerateTalking, Fake!GenerateTalkingVideo
  <2>5. EndFits("GenerateTalking")
    BY EndOfGenerateTalking
  <2> QED BY <2>2, <2>3, <2>4, <2>5 DEF Agree
<1>17. Agree("GenerateTalkingSpeech")
  <2>1. MethodTable["GenerateTalkingSpeech"] = GenerateTalkingSpeech /\ Fake!HandlerTable["GenerateTalkingSpeech"] = Fake!GenerateTalkingVideo
    BY DEF MethodTable, Fake!HandlerTable
  <2>2. PartsFit("GenerateTalkingSpeech")
    BY <2>1 DEF GenerateTalkingSpeech, Fake!GenerateTalkingVideo
  <2>3. ArmsFit("GenerateTalkingSpeech")
    BY <2>1 DEF GenerateTalkingSpeech, Fake!GenerateTalkingVideo
  <2>4. OrderFits("GenerateTalkingSpeech")
    BY <2>1 DEF GenerateTalkingSpeech, Fake!GenerateTalkingVideo
  <2>5. EndFits("GenerateTalkingSpeech")
    BY EndOfGenerateTalkingSpeech
  <2> QED BY <2>2, <2>3, <2>4, <2>5 DEF Agree
<1>18. Agree("Plan")
  <2>1. MethodTable["Plan"] = Plan /\ Fake!HandlerTable["Plan"] = Fake!NoUpload
    BY DEF MethodTable, Fake!HandlerTable
  <2> QED BY <2>1 DEF Agree, Plan, Fake!NoUpload
<1>19. Agree("ComposeSong")
  <2>1. MethodTable["ComposeSong"] = ComposeSong /\ Fake!HandlerTable["ComposeSong"] = Fake!NoUpload
    BY DEF MethodTable, Fake!HandlerTable
  <2> QED BY <2>1 DEF Agree, ComposeSong, Fake!NoUpload
<1>20. Agree("TranscribeScore")
  <2>1. MethodTable["TranscribeScore"] = TranscribeScore /\ Fake!HandlerTable["TranscribeScore"] = Fake!TranscribeScore
    BY DEF MethodTable, Fake!HandlerTable
  <2> QED BY <2>1 DEF Agree, TranscribeScore, Fake!TranscribeScore
<1>21. Agree("Design")
  <2>1. MethodTable["Design"] = Design /\ Fake!HandlerTable["Design"] = Fake!NoUpload
    BY DEF MethodTable, Fake!HandlerTable
  <2> QED BY <2>1 DEF Agree, Design, Fake!NoUpload
<1>22. Agree("Save")
  <2>1. MethodTable["Save"] = Save /\ Fake!HandlerTable["Save"] = Fake!SaveVoice
    BY DEF MethodTable, Fake!HandlerTable
  <2>2. PartsFit("Save")
    BY <2>1 DEF Save, Fake!SaveVoice
  <2>3. ArmsFit("Save")
    BY <2>1 DEF Save, Fake!SaveVoice
  <2>4. OrderFits("Save")
    BY <2>1 DEF Save, Fake!SaveVoice
  <2>5. EndFits("Save")
    BY EndOfSave
  <2> QED BY <2>2, <2>3, <2>4, <2>5 DEF Agree
<1>23. Agree("Speak")
  <2>1. MethodTable["Speak"] = Speak /\ Fake!HandlerTable["Speak"] = Fake!NoUpload
    BY DEF MethodTable, Fake!HandlerTable
  <2> QED BY <2>1 DEF Agree, Speak, Fake!NoUpload
<1>24. Agree("ClusterHdbscan")
  <2>1. MethodTable["ClusterHdbscan"] = ClusterHdbscan /\ Fake!HandlerTable["ClusterHdbscan"] = Fake!ClusterHdbscan
    BY DEF MethodTable, Fake!HandlerTable
  <2> QED BY <2>1 DEF Agree, ClusterHdbscan, Fake!ClusterHdbscan
<1>25. Agree("ProjectUmap")
  <2>1. MethodTable["ProjectUmap"] = ProjectUmap /\ Fake!HandlerTable["ProjectUmap"] = Fake!ProjectUmap
    BY DEF MethodTable, Fake!HandlerTable
  <2> QED BY <2>1 DEF Agree, ProjectUmap, Fake!ProjectUmap
<1>26. Agree("Transcribe")
  <2>1. MethodTable["Transcribe"] = Transcribe /\ Fake!HandlerTable["Transcribe"] = Fake!Transcribe
    BY DEF MethodTable, Fake!HandlerTable
  <2> QED BY <2>1 DEF Agree, Transcribe, Fake!Transcribe
<1>27. Agree("TranscribeRecording")
  <2>1. MethodTable["TranscribeRecording"] = TranscribeRecording /\ Fake!HandlerTable["TranscribeRecording"] = Fake!TranscribeRecording
    BY DEF MethodTable, Fake!HandlerTable
  <2> QED BY <2>1 DEF Agree, TranscribeRecording, Fake!TranscribeRecording
<1>28. Agree("ExtractContent")
  <2>1. MethodTable["ExtractContent"] = ExtractContent /\ Fake!HandlerTable["ExtractContent"] = Fake!ExtractContent
    BY DEF MethodTable, Fake!HandlerTable
  <2> QED BY <2>1 DEF Agree, ExtractContent, Fake!ExtractContent
<1>29. Agree("CompleteWithAttachments")
  <2>1. MethodTable["CompleteWithAttachments"] = CompleteWithAttachments /\ Fake!HandlerTable["CompleteWithAttachments"] = Fake!CompleteUpload
    BY DEF MethodTable, Fake!HandlerTable
  <2> QED BY <2>1 DEF Agree, CompleteWithAttachments, Fake!CompleteUpload
<1> HIDE DEF PartsFit, ArmsFit, OrderFits, EndFits
<1> QED
  BY MethodsAre, <1>1, <1>2, <1>3, <1>4, <1>5, <1>6, <1>7, <1>8, <1>9, <1>10, <1>11, <1>12,
     <1>13, <1>14, <1>15, <1>16, <1>17, <1>18, <1>19, <1>20, <1>21, <1>22, <1>23,
     <1>24, <1>25, <1>26, <1>27, <1>28, <1>29

------------------------------------------------------------------------------
(* What the answer of a call is like, at every step. *)

Kinds == {"file", "images", "one", "listed", "result", "rows", "counted", "ended"}
FileKinds == {"file", "images", "one", "listed", "ended"}
FileSection == IF kind = "ended" THEN 2 ELSE 3

Unanswered == server \in {"receiving", "accepted"}
Working == server = "answering" \/ status = "ok"

Held ==
  [metadata : BOOLEAN, count : Nat, done : BOOLEAN, rows : Nat, wanted : Nat,
   files : Seq(HeldFile)]

Typed ==
  /\ method \in Methods
  /\ outcome \in {"new", "refused", "calling", "ok", "error"} /\ closed \in BOOLEAN
  /\ server \in {"receiving", "accepted", "answering", "ended"}
  /\ status \in {"open", "ok", "invalid", "error"}
  /\ meant \in Seq(AnswerFile) /\ held \in Held

\* Who has begun what.
Phases ==
  /\ server = "ended" <=> status # "open"
  /\ outcome = "ok" => status = "ok"
  /\ outcome \in {"new", "refused"} => sent = taken /\ ~closed /\ server = "receiving"
  /\ status = "invalid" => meant = <<>>
  /\ Unanswered =>
       /\ ask \in Asks(method)
       /\ meant = <<>> /\ given = AnswerStart /\ read = AnswerStart
       /\ held = [NothingHeld EXCEPT !.wanted = held.wanted]

\* The client reads behind the server.
ReadBehind ==
  /\ IsPlace(answer, given) /\ IsPlace(answer, read)
  /\ read = given \/ Precedes(read, given)

\* What was counted, and what there is to count.
Counted ==
  /\ held.metadata \/ held.done => held.count = Len(meant)
  /\ kind = "rows" /\ Working => held.wanted = Len(meant)
  /\ Unanswered /\ outcome \notin {"new", "refused"} => held.wanted = RowsAsked

\* The files collected are those read so far.
FilesHeld ==
  /\ kind \in FileKinds => Gathered(held.files, Reached(answer, read, FileSection), meant)
  /\ kind \notin FileKinds => held.files = <<>>
  /\ kind = "ended" /\ held.done => AtEnd(answer, read)

AnswerInv ==
  /\ Typed /\ Phases /\ ReadBehind /\ Counted /\ FilesHeld
  /\ Working => meant \in Answers(kind)
  /\ AnswerIsWhole


\* The answers of the methods, and the sections of each kind of answer.
LEMMA AnswerKinds == \A m \in Methods : MethodTable[m].answer \in Kinds
  BY DEF Methods, MethodTable, Kinds, TransformImage, TransformVideo, GeneratePreview,
     ProbeMedia, RemoveBackground, RestoreFace, ColorizeFace, InpaintFace, UpscaleImage,
     Generate, Edit, Outpaint, RefineFaces, Render, GenerateVideo, GenerateTalking,
     GenerateTalkingSpeech, Plan, ComposeSong, TranscribeScore, Design, Save, Speak,
     ClusterHdbscan, ProjectUmap, Transcribe, TranscribeRecording, ExtractContent,
     CompleteWithAttachments, Request

LEMMA StagesAre ==
  ASSUME NEW k \in Kinds
  PROVE  LET stages == Stages(k)
             n == IF k = "ended" THEN 2 ELSE 3
         IN /\ Len(stages) \in 2 .. 3 /\ DOMAIN stages = 1 .. Len(stages)
            /\ stages[1] = "progress"
            /\ \A s \in 1 .. Len(stages) :
                 /\ stages[s] \in {"progress", "metadata", "file", "row", "result"}
                 /\ stages[s] = "file" => k \in FileKinds /\ s = n
                 /\ k = "ended" /\ stages[s] = "result" => s = Len(stages)
            /\ k \in FileKinds => n \in 1 .. Len(stages) /\ stages[n] = "file"
<1>1. CASE k \in {"file", "images", "one", "listed"}
  <2>1. Stages(k) = <<"progress", "metadata", "file">>
    BY <1>1 DEF Stages
  <2> QED BY <1>1, <2>1 DEF FileKinds
<1>2. CASE k = "result"
  <2>1. Stages(k) = <<"progress", "result">>
    BY <1>2 DEF Stages
  <2> QED BY <1>2, <2>1 DEF FileKinds
<1>3. CASE k = "rows"
  <2>1. Stages(k) = <<"progress", "metadata", "row">>
    BY <1>3 DEF Stages
  <2> QED BY <1>3, <2>1 DEF FileKinds
<1>4. CASE k = "counted"
  <2>1. Stages(k) = <<"progress", "row", "result">>
    BY <1>4 DEF Stages
  <2> QED BY <1>4, <2>1 DEF FileKinds
<1>5. CASE k = "ended"
  <2>1. Stages(k) = <<"progress", "file", "result">>
    BY <1>5 DEF Stages
  <2>2. /\ Len(Stages(k)) = 3 /\ DOMAIN Stages(k) = 1 .. 3
        /\ Stages(k)[1] = "progress" /\ Stages(k)[2] = "file" /\ Stages(k)[3] = "result"
    BY <2>1
  <2>3. \A s \in 1 .. 3 : s = 1 \/ s = 2 \/ s = 3
    OBVIOUS
  <2>4. k \in FileKinds
    BY <1>5 DEF FileKinds
  <2> HIDE DEF FileKinds
  <2> DEFINE stages == Stages(k)
  <2>5. \A s \in 1 .. 3 :
          /\ stages[s] \in {"progress", "metadata", "file", "row", "result"}
          /\ stages[s] = "file" => s = 2
          /\ stages[s] = "result" => s = 3
    BY <2>2, <2>3
  <2>6. Len(stages) = 3 /\ DOMAIN stages = 1 .. 3 /\ stages[1] = "progress" /\ stages[2] = "file"
    BY <2>2
  <2> HIDE DEF stages
  <2>7. /\ Len(stages) \in 2 .. 3 /\ 2 \in 1 .. Len(stages)
        /\ DOMAIN stages = 1 .. Len(stages)
    BY <2>6
  <2> QED BY <1>5, <2>4, <2>5, <2>6, <2>7 DEF stages
<1> QED BY <1>1, <1>2, <1>3, <1>4, <1>5 DEF Kinds

LEMMA ShapeOfAnswer ==
  ASSUME NEW k \in Kinds, NEW files \in Seq(AnswerFile)
  PROVE  LET shape == AnswerShape(k, files)
             n == IF k = "ended" THEN 2 ELSE 3
         IN /\ IsShape(shape) /\ Len(shape) = Len(Stages(k))
            /\ shape[1] = <<1>>
            /\ k \in FileKinds =>
                 /\ Len(shape[n]) = Len(files)
                 /\ \A i \in 1 .. Len(files) : shape[n][i] = FramesIn(files[i].size)
<1> DEFINE shape == AnswerShape(k, files)
           n == IF k = "ended" THEN 2 ELSE 3
           sizes == [i \in DOMAIN files |-> FramesIn(files[i].size)]
           ones == [i \in DOMAIN files |-> 1]
<1>1. /\ Len(files) \in Nat /\ DOMAIN files = 1 .. Len(files)
      /\ \A i \in 1 .. Len(files) : files[i].size \in Nat
  <2>1. \A i \in 1 .. Len(files) : files[i] \in AnswerFile
    BY ElementOfSeq
  <2> QED BY <2>1, LenProperties DEF AnswerFile
<1>2. \A i \in 1 .. Len(files) : FramesIn(files[i].size) \in Nat \ {0}
  BY <1>1 DEF FramesIn
<1>3. sizes \in Seq(Nat \ {0}) /\ Len(sizes) = Len(files)
  BY <1>1, <1>2, IsASeq, LenProperties
<1>4. ones \in Seq(Nat \ {0}) /\ <<1>> \in Seq(Nat \ {0})
  BY <1>1, IsASeq
<1>5. Len(Stages(k)) \in Nat /\ DOMAIN Stages(k) = 1 .. Len(Stages(k))
  BY StagesAre
<1>6. shape = [s \in 1 .. Len(Stages(k)) |->
                 CASE Stages(k)[s] = "file" -> sizes [] Stages(k)[s] = "row" -> ones
                   [] OTHER -> <<1>>]
  BY <1>5 DEF AnswerShape
<1> HIDE DEF shape, sizes, ones
<1>7. \A s \in 1 .. Len(Stages(k)) : shape[s] \in Seq(Nat \ {0})
  BY <1>3, <1>4, <1>6
<1>8. shape \in Seq(Seq(Nat \ {0})) /\ Len(shape) = Len(Stages(k))
  BY <1>5, <1>6, <1>7, IsASeq, LenProperties
<1>9. shape[1] = <<1>>
  BY <1>6, StagesAre
<1>10. k \in FileKinds => shape[n] = sizes
  BY <1>6, StagesAre
<1> QED BY <1>1, <1>3, <1>8, <1>9, <1>10 DEF IsShape, shape, sizes

LEMMA AnswerShaped ==
  ASSUME Typed
  PROVE  /\ kind \in Kinds /\ IsShape(answer) /\ Len(answer) = Len(Stages(kind))
         /\ answer[1] = <<1>>
         /\ kind \in FileKinds =>
              /\ Len(answer[FileSection]) = Len(meant)
              /\ \A i \in 1 .. Len(meant) : answer[FileSection][i] = FramesIn(meant[i].size)
BY AnswerKinds, ShapeOfAnswer DEF Typed, kind, answer, FileSection

\* Before anything is read of an answer, nothing has to be held.
LEMMA NothingGathered ==
  ASSUME NEW all \in Seq(AnswerFile)
  PROVE  Gathered(<<>>, Spot(1, 1), all)
BY EmptySeq DEF Gathered, Spot, Begun, OneToAName, AllDifferent, AsManyAsBegun,
   EachAsReceived, EachDeclared

LEMMA AnswerStarts ==
  ASSUME NEW k \in Kinds, NEW files \in Seq(AnswerFile)
  PROVE  /\ IsPlace(AnswerShape(k, files), AnswerStart)
         /\ \A n \in 2 .. 3 : Reached(AnswerShape(k, files), AnswerStart, n) = Spot(1, 1)
<1>1. Len(AnswerShape(k, files)) \in 2 .. 3 /\ AnswerShape(k, files)[1] = <<1>>
  BY ShapeOfAnswer, StagesAre
<1>2. IsPlace(AnswerShape(k, files), AnswerStart)
  <2>1. Len(<<1>>) = 1 /\ <<1>>[1] = 1
    OBVIOUS
  <2> DEFINE shape == AnswerShape(k, files)
  <2> HIDE DEF shape
  <2>2. Len(shape) \in 2 .. 3 /\ shape[1] = <<1>>
    BY <1>1 DEF shape
  <2>3. Len(shape[1]) = 1 /\ shape[1][1] = 1 /\ 1 \in 1 .. Len(shape)
    BY <2>1, <2>2
  <2>4. IsPlace(shape, AnswerStart)
    BY <2>3 DEF IsPlace, AnswerStart
  <2> QED BY <2>4 DEF shape
<1>3. \A n \in 2 .. 3 : Reached(AnswerShape(k, files), AnswerStart, n) = Spot(1, 1)
  BY DEF Reached, AnswerStart
<1> QED BY <1>2, <1>3

\* The client reads one more frame: what it holds is what was sent up to there.
LEMMA ReadKeeps ==
  ASSUME AnswerInv, ReceiveAnswer
  PROVE  held' \in Held /\ ReadBehind' /\ Counted' /\ FilesHeld'
<1> DEFINE stage == Stages(kind)[read.section]
           f == AnswerFrame(kind, meant, read)
<1>1. /\ kind \in Kinds /\ IsShape(answer) /\ Len(answer) = Len(Stages(kind))
      /\ meant \in Seq(AnswerFile) /\ held \in Held /\ Len(meant) \in Nat
  BY AnswerShaped, LenProperties DEF AnswerInv, Typed
<1>2. /\ UNCHANGED <<method, ask, outcome, sent, closed, taken, got, server, status, meant, given>>
      /\ read' = After(answer, read) /\ held' = Collect(held, f) /\ read # given
  BY DEF ReceiveAnswer, serverVars
<1>3. kind' = kind /\ answer' = answer /\ FileSection' = FileSection
  BY <1>2 DEF kind, answer, FileSection
<1>4. /\ IsPlace(answer, read) /\ IsPlace(answer, given) /\ Precedes(read, given)
      /\ ~AtEnd(answer, read)
  BY <1>1, <1>2, AfterIsNext DEF AnswerInv, ReadBehind
<1>5. ReadBehind'
  BY <1>1, <1>2, <1>3, <1>4, AfterIsNext, AfterReached DEF ReadBehind
<1>6. read.section \in 1 .. Len(Stages(kind))
  <2>1. Len(answer) \in Nat
    BY <1>1, StagesAre
  <2> QED BY <1>1, <1>4, <2>1 DEF IsPlace, AtEnd
<1>7. /\ stage \in {"progress", "metadata", "file", "row", "result"}
      /\ stage = "file" => kind \in FileKinds /\ read.section = FileSection
      /\ kind \in FileKinds =>
           FileSection \in 1 .. Len(answer) /\ Stages(kind)[FileSection] = "file"
      /\ kind = "ended" /\ stage = "result" => read.section = Len(answer)
  BY <1>1, <1>6, StagesAre DEF FileSection
<1>8. ~Unanswered
  BY <1>2 DEF AnswerInv, Phases
<1>9. CASE stage = "file"
  <2> DEFINE i == read.item
             k == read.chunk
  <2>1. i \in 1 .. Len(meant) /\ k \in 1 .. FramesIn(meant[i].size)
    BY <1>1, <1>4, <1>6, <1>7, <1>9, AnswerShaped DEF AnswerInv, IsPlace, AtEnd
  <2>2. Reached(answer, read, FileSection) = Spot(i, k)
    BY <1>7, <1>9 DEF Reached
  <2>3. Reached(answer, read', FileSection) =
          IF k < FramesIn(meant[i].size) THEN Spot(i, k + 1) ELSE Spot(i + 1, 1)
    <3>1. Reached(answer, read', FileSection) = Advanced(answer[FileSection], read)
      BY <1>1, <1>2, <1>4, <1>7, <1>9, AfterReached
    <3> QED BY <1>7, <1>9, <2>1, <3>1, AnswerShaped DEF Advanced, AnswerInv
  <2>4. /\ f.name = meant[i].name /\ f.count = meant[i].size /\ f.stage = "file"
        /\ f.size = (IF meant[i].size = 0 THEN 0 ELSE 1)
    BY <1>9 DEF AnswerFrame, Frame
  <2>5. held.files \in Seq(HeldFile) /\ Gathered(held.files, Spot(i, k), meant)
    BY <1>1, <1>7, <1>9, <2>2 DEF AnswerInv, FilesHeld, Held
  <2>6. held' = [held EXCEPT !.files = Add(held.files, f)]
    BY <1>2, <2>4 DEF Collect
  <2> HIDE DEF f, i, k, stage
  <2>7. /\ Add(held.files, f) \in Seq(HeldFile)
        /\ Gathered(Add(held.files, f),
                    IF k < FramesIn(meant[i].size) THEN Spot(i, k + 1) ELSE Spot(i + 1, 1), meant)
    BY <1>1, <2>1, <2>4, <2>5, Gather
  <2>8. /\ held' \in Held /\ held'.files = Add(held.files, f)
        /\ held'.metadata = held.metadata /\ held'.done = held.done
        /\ held'.count = held.count /\ held'.wanted = held.wanted
    BY <1>1, <2>6, <2>7 DEF Held
  <2>9. kind = "ended" => ~held.done
    BY <1>4 DEF AnswerInv, FilesHeld
  <2>10. FilesHeld'
    BY <1>2, <1>3, <1>7, <1>9, <2>3, <2>7, <2>8, <2>9 DEF FilesHeld
  <2>11. Counted'
    BY <1>2, <1>3, <1>8, <2>8 DEF Counted, AnswerInv, Working, Unanswered
  <2> QED BY <1>5, <2>8, <2>10, <2>11
<1>10. CASE stage # "file"
  <2>1. f.stage = stage /\ f.count = Len(meant)
    BY <1>10 DEF AnswerFrame, Frame
  <2>2. /\ held' \in Held /\ held'.files = held.files /\ held'.wanted = held.wanted
        /\ \/ /\ stage \in {"progress", "row"}
              /\ held'.metadata = held.metadata /\ held'.done = held.done
              /\ held'.count = held.count
           \/ stage = "metadata" /\ held'.done = held.done /\ held'.count = Len(meant)
           \/ stage = "result" /\ held'.count = Len(meant)
    <3> HIDE DEF f, stage
    <3>1. CASE stage = "progress"
      BY <1>1, <1>2, <2>1, <3>1 DEF Collect, Held
    <3>2. CASE stage = "row"
      <4>1. held' = [held EXCEPT !.rows = held.rows + 1]
        BY <1>2, <2>1, <3>2 DEF Collect
      <4> QED BY <1>1, <3>2, <4>1 DEF Held
    <3>3. CASE stage = "metadata"
      <4>1. held' = [held EXCEPT !.metadata = TRUE, !.count = Len(meant)]
        BY <1>2, <2>1, <3>3 DEF Collect
      <4> QED BY <1>1, <3>3, <4>1 DEF Held
    <3>4. CASE stage = "result"
      BY <1>1, <1>2, <2>1, <3>4 DEF Collect, Held
    <3> QED BY <1>7, <1>10, <3>1, <3>2, <3>3, <3>4
  <2>3. kind \in FileKinds => Reached(answer, read', FileSection) = Reached(answer, read, FileSection)
    BY <1>1, <1>2, <1>4, <1>7, <1>10, AfterReached
  <2>4. kind = "ended" /\ held'.done => AtEnd(answer, read')
    <3>1. CASE stage = "result" /\ kind = "ended"
      <4>1. Len(answer) \in Nat /\ read.section = Len(answer)
        BY <1>1, <1>7, <3>1, StagesAre
      <4>2. IsPlace(answer, read') /\ Precedes(read, read')
        BY <1>1, <1>2, <1>4, AfterReached, AfterIsLater
      <4>3. Len(answer[3]) = 1 /\ answer[3][1] = 1 /\ Len(answer) = 3
        BY <3>1 DEF answer, AnswerShape, Stages
      <4> QED BY <1>4, <4>1, <4>2, <4>3 DEF AtEnd, IsPlace, Precedes
    <3>2. CASE ~(stage = "result" /\ kind = "ended")
      BY <1>4, <2>2, <3>2 DEF AnswerInv, FilesHeld
    <3> QED BY <3>1, <3>2
  <2>5. FilesHeld'
    BY <1>2, <1>3, <2>2, <2>3, <2>4 DEF FilesHeld, AnswerInv
  <2>6. Counted'
    BY <1>2, <1>3, <1>8, <2>2 DEF Counted, AnswerInv, Working, Unanswered
  <2> QED BY <1>5, <2>2, <2>5, <2>6
<1> QED BY <1>9, <1>10

------------------------------------------------------------------------------
(* What a caller passes. *)

FileGiven == [name : Names, chunks : Nat]

LEMMA BoundedSeqIs ==
  ASSUME NEW S, NEW n \in Nat, NEW seq \in BoundedSeq(S, n)
  PROVE  seq \in Seq(S) /\ Len(seq) <= n
<1>1. PICK m \in 0 .. n : seq \in [1 .. m -> S]
  BY DEF BoundedSeq, SeqOf
<1> QED BY <1>1, IsASeq, LenProperties

LEMMA FilesOfPart ==
  ASSUME NEW m \in Methods, NEW a \in Asks(m), NEW p \in DOMAIN MethodTable[m].parts
  PROVE  LET part == MethodTable[m].parts[p]
             files == a.files[part.arm]
         IN /\ files \in Seq(FileGiven) /\ Len(files) \in Nat
            /\ Len(files) >= part.least /\ Len(files) <= part.most
<1> DEFINE part == MethodTable[m].parts[p]
           files == a.files[part.arm]
           pool == [name : FileNames(part), chunks : part.fewest .. MaxChunks]
<1>1. PartsFit(m)
  BY TablesAgree DEF Agree
<1>2. part.arm \in PartArms(m)
  BY DEF PartArms
<1>3. PartOf(m, part.arm) = part
  BY <1>1 DEF PartsFit, PartOf
<1>4. files \in FilesFor(part)
  BY <1>2, <1>3 DEF Asks
<1>5. part.most \in Nat /\ part.fewest \in Nat /\ part.least \in Nat
  BY <1>1 DEF PartsFit
<1>6. pool \subseteq FileGiven
  BY <1>5, RequestAssumption DEF FileNames, FileGiven
<1> HIDE DEF part, files, pool
<1>7. files \in BoundedSeq(pool, part.most) /\ Len(files) >= part.least
  BY <1>4 DEF FilesFor, pool
<1>8. files \in Seq(pool) /\ Len(files) <= part.most
  BY <1>5, <1>7, BoundedSeqIs
<1>9. files \in Seq(FileGiven) /\ Len(files) \in Nat
  BY <1>6, <1>8, LenProperties, SeqMonotonic
<1> QED BY <1>7, <1>8, <1>9 DEF part, files

LEMMA RowsAreCounted ==
  ASSUME method \in Methods, ask \in Asks(method)
  PROVE  RowsAsked \in Nat
<1>1. CASE "points" \in PartArms(method) /\ ask.files.points # <<>>
  <2>1. PICK p \in DOMAIN MethodTable[method].parts : MethodTable[method].parts[p].arm = "points"
    BY <1>1 DEF PartArms
  <2>2. ask.files.points \in Seq(FileGiven)
    BY <2>1, FilesOfPart
  <2>3. ask.files.points[1] \in FileGiven
    BY <1>1, <2>2, EmptySeq, ElementOfSeq, LenProperties
  <2> QED BY <1>1, <2>3 DEF RowsAsked, FileGiven
<1>2. CASE ~("points" \in PartArms(method) /\ ask.files.points # <<>>)
  BY <1>2 DEF RowsAsked
<1> QED BY <1>1, <1>2

------------------------------------------------------------------------------
(* The answer arrives whole. *)

LEMMA AnswersTyped ==
  ASSUME NEW k \in Kinds, NEW files \in Answers(k)
  PROVE  /\ files \in Seq(AnswerFile)
         /\ k \in {"file", "one"} => Len(files) = 1
         /\ k = "result" => files = <<>>
         /\ k = "ended" => AllDifferent(files)
<1>1. AnswerFiles \subseteq AnswerFile /\ MaxFiles \in Nat
  BY RequestAssumption DEF AnswerFiles, AnswerFile, FileNamesSent
<1>2. CASE k \in {"file", "one"}
  <2>1. files \in [1 .. 1 -> AnswerFile]
    <3>1. files \in [{1} -> AnswerFiles] /\ {1} = 1 .. 1
      BY <1>2 DEF Answers
    <3> QED BY <1>1, <3>1
  <2>2. files \in Seq(AnswerFile)
    BY <2>1, SeqDef
  <2>3. Len(files) = 1
    BY <2>1, <2>2, LenProperties
  <2> QED BY <1>2, <2>2, <2>3
<1>3. CASE k \in {"images", "listed"}
  BY <1>1, <1>3, BoundedSeqIs, SeqMonotonic DEF Answers
<1>4. CASE k = "result"
  BY <1>4, EmptySeq DEF Answers
<1>5. CASE k \in {"rows", "counted"}
  <2>1. PICK n \in 1 .. MaxChunks : files = [i \in 1 .. n |-> [name |-> NoName, size |-> 1]]
    BY <1>5 DEF Answers
  <2>2. files \in [1 .. n -> AnswerFile]
    BY <2>1 DEF AnswerFile, FileNamesSent
  <2>3. n \in Nat
    BY RequestAssumption
  <2> QED BY <1>5, <2>2, <2>3, IsASeq
<1>6. CASE k = "ended"
  <2>1. files \in Seq(AnswerFile)
    BY <1>1, <1>6, BoundedSeqIs, SeqMonotonic DEF Answers
  <2> QED BY <1>6, <2>1, LenProperties DEF Answers, AllDifferent
<1> QED BY <1>2, <1>3, <1>4, <1>5, <1>6 DEF Kinds

LEMMA AnswerInit == Init => AnswerInv
<1> SUFFICES ASSUME Init PROVE AnswerInv
  OBVIOUS
<1> USE DEF Init
<1>1. <<>> \in Seq(HeldFile) /\ <<>> \in Seq(AnswerFile) /\ Len(<<>>) = 0
  BY EmptySeq
<1>2. Typed
  BY <1>1 DEF Typed, Held, NothingHeld
<1>3. Phases
  BY DEF Phases, NothingHeld, Unanswered
<1>4. ReadBehind
  BY <1>2, AnswerShaped, AnswerStarts DEF ReadBehind, Typed, answer
<1>5. Counted
  BY DEF Counted, NothingHeld, Unanswered, Working
<1>6. FilesHeld
  <2>1. kind \in FileKinds => Reached(answer, read, FileSection) = Spot(1, 1)
    <3>1. answer = AnswerShape(kind, meant) /\ kind \in Kinds /\ meant \in Seq(AnswerFile)
      BY <1>2, AnswerShaped DEF Typed, answer
    <3>2. FileSection \in 2 .. 3 /\ read = AnswerStart
      BY DEF FileSection
    <3> HIDE DEF Init
    <3> QED BY <3>1, <3>2, AnswerStarts
  <2> QED BY <1>1, <2>1, NothingGathered DEF FilesHeld, NothingHeld
<1>7. AnswerIsWhole /\ ~Working
  BY DEF AnswerIsWhole, Working
<1> QED BY <1>2, <1>3, <1>4, <1>5, <1>6, <1>7 DEF AnswerInv

\* Steps that neither touch the answer nor what is read of it.
QuietStep ==
  \/ Send \/ SendSeesEnd \/ HalfClose \/ ReceiveEnd \/ Receive \/ Drained
  \/ EndWhole \/ EndEarly \/ Fail

LEMMA QuietSteps ==
  ASSUME AnswerInv, QuietStep
  PROVE  /\ UNCHANGED <<method, ask, meant, given, read, held>>
         /\ Typed' /\ Phases' /\ (Unanswered' => Unanswered)
         /\ Working' => server = "answering" \/ status = "ok"
         /\ outcome' # outcome => outcome = "calling"
<1> USE DEF AnswerInv, Typed, Phases, Unanswered, Working, clientVars, serverVars
<1>1. CASE Send \/ SendSeesEnd
  BY <1>1 DEF Send, SendSeesEnd, Sending
<1>2. CASE HalfClose
  BY <1>2 DEF HalfClose
<1>3. CASE ReceiveEnd
  BY <1>3 DEF ReceiveEnd
<1>4. CASE Receive
  BY <1>4 DEF Receive
<1>5. CASE Drained
  BY <1>5 DEF Drained
<1>6. CASE EndWhole
  BY <1>6 DEF EndWhole
<1>7. CASE EndEarly
  BY <1>7 DEF EndEarly
<1>8. CASE Fail
  BY <1>8 DEF Fail
<1> QED BY <1>1, <1>2, <1>3, <1>4, <1>5, <1>6, <1>7, <1>8 DEF QuietStep

\* What a method takes for an answer is all that was meant.
LEMMA WholeWhenAnswered ==
  ASSUME AnswerInv, Working, Answered(held)
  PROVE  LET returned == [i \in DOMAIN held.files |->
                            [name |-> held.files[i].name, size |-> held.files[i].size]]
         IN CASE kind = "images" ->
                   \A i \in DOMAIN returned : \E j \in DOMAIN meant : returned[i] = meant[j]
              [] kind \in {"rows", "counted"} -> held.rows = Len(meant)
              [] OTHER -> returned = meant
<1> DEFINE returned == [i \in DOMAIN held.files |->
                          [name |-> held.files[i].name, size |-> held.files[i].size]]
           r == Reached(answer, read, FileSection)
<1>1. /\ kind \in Kinds /\ meant \in Seq(AnswerFile) /\ held \in Held
      /\ held.files \in Seq(HeldFile) /\ meant \in Answers(kind)
  BY AnswerShaped DEF AnswerInv, Typed, Held
<1>2. /\ Len(held.files) \in Nat /\ DOMAIN held.files = 1 .. Len(held.files)
      /\ Len(meant) \in Nat /\ DOMAIN meant = 1 .. Len(meant)
      /\ \A n \in 1 .. Len(held.files) : held.files[n] \in HeldFile
      /\ \A j \in 1 .. Len(meant) : meant[j] \in AnswerFile
  BY <1>1, LenProperties, ElementOfSeq
<1>3. CASE kind \in {"rows", "counted"}
  BY <1>3 DEF AnswerInv, Counted, Answered, HasRows, HasAsCounted, Working
<1>4. CASE kind = "result"
  BY <1>1, <1>2, <1>4, AnswersTyped, EmptySeq DEF AnswerInv, FilesHeld, FileKinds
<1>5. CASE kind \in FileKinds
  <2>1. Gathered(held.files, r, meant)
    BY <1>5 DEF AnswerInv, FilesHeld
  <2>2. ASSUME NEW n \in 1 .. Len(held.files), AsLongAsDeclared(held)
        PROVE  held.files[n].size = held.files[n].expected
    BY <1>2, <2>1, <2>2 DEF AsLongAsDeclared, Gathered, EachDeclared, HeldFile
  <2>3. CASE kind = "images"
    <3>1. ASSUME NEW n \in 1 .. Len(held.files)
          PROVE  \E j \in DOMAIN meant : returned[n] = meant[j]
      <4>1. PICK j \in 1 .. Len(meant) :
              held.files[n].name = meant[j].name /\ held.files[n].expected = meant[j].size
        BY <2>1 DEF Gathered, EachDeclared
      <4>2. held.files[n].size = meant[j].size
        BY <2>2, <2>3, <4>1 DEF Answered, HasImages
      <4> QED BY <1>2, <4>1, <4>2 DEF AnswerFile
    <3> QED BY <1>2, <2>3, <3>1
  <2>4. CASE kind # "images"
    <3>1. Begun(r) \in Nat /\ Begun(r) <= Len(meant)
      <4>1. /\ IsShape(answer) /\ IsPlace(answer, read) /\ FileSection \in 1 .. Len(answer)
            /\ Len(answer[FileSection]) = Len(meant)
        BY <1>1, <1>5, AnswerShaped, StagesAre DEF AnswerInv, ReadBehind, FileSection
      <4> QED BY <1>2, <4>1 DEF IsPlace, Reached, Begun, Spot
    <3>2. Len(held.files) = Begun(r) /\ Begun(r) = Len(meant)
      <4>1. Len(held.files) <= Begun(r)
        BY <2>1 DEF Gathered, AsManyAsBegun
      <4>3. CASE kind \in {"file", "one"}
        <5>1. Len(meant) = 1
          BY <1>1, <4>3, AnswersTyped
        <5>2. Len(held.files) >= 1
          <6>1. CASE kind = "file"
            <7>1. held.files # <<>>
              BY <6>1 DEF Answered, HasFile
            <7> QED BY <1>1, <1>2, <7>1, EmptySeq
          <6>2. CASE kind = "one"
            BY <6>2 DEF Answered, HasOne
          <6> QED BY <4>3, <6>1, <6>2
        <5> HIDE DEF r
        <5> QED BY <1>2, <3>1, <4>1, <5>1, <5>2
      <4>4. CASE kind = "listed"
        BY <1>2, <3>1, <4>1, <4>4 DEF Answered, HasAsListed, AnswerInv, Counted
      <4>5. CASE kind = "ended"
        <5>1. AtEnd(answer, read)
          BY <4>5 DEF Answered, HasResult, AnswerInv, FilesHeld
        <5>2. /\ IsShape(answer) /\ IsPlace(answer, read) /\ FileSection \in 1 .. Len(answer)
              /\ Len(answer[FileSection]) = Len(meant)
          BY <1>1, <1>5, AnswerShaped, StagesAre DEF AnswerInv, ReadBehind, FileSection
        <5>3. r = Spot(Len(meant) + 1, 1)
          BY <5>1, <5>2, EndReached
        <5>4. Begun(r) = Len(meant)
          BY <1>2, <5>3 DEF Begun, Spot
        <5> QED BY <1>1, <2>1, <4>5, <5>4, AnswersTyped DEF Gathered, AsManyAsBegun
      <4> QED BY <2>4, <1>5, <4>3, <4>4, <4>5 DEF FileKinds
    <3>3. ASSUME NEW n \in 1 .. Len(meant)
          PROVE  returned[n] = meant[n]
      <4> DEFINE size == IF n < r.item THEN meant[n].size ELSE r.chunk - 1
      <4>3. held.files[n] = [name |-> meant[n].name, expected |-> meant[n].size, size |-> size]
        <5> HIDE DEF r
        <5>1. EachAsReceived(held.files, r, meant)
          BY <2>1 DEF Gathered
        <5> QED BY <3>2, <5>1 DEF EachAsReceived
      <4>1. held.files[n].name = meant[n].name /\ held.files[n].expected = meant[n].size
        <5> HIDE DEF size
        <5> QED BY <4>3
      <4>2. held.files[n].size = meant[n].size
        <5>1. CASE kind = "ended"
          \* a call that ended has sent every chunk of every file
          <6>1. r.item = Len(meant) + 1
            <7>1. AtEnd(answer, read)
              BY <5>1 DEF Answered, HasResult, AnswerInv, FilesHeld
            <7>2. /\ IsShape(answer) /\ IsPlace(answer, read) /\ FileSection \in 1 .. Len(answer)
                  /\ Len(answer[FileSection]) = Len(meant)
              BY <1>1, <1>5, AnswerShaped, StagesAre DEF AnswerInv, ReadBehind, FileSection
            <7>3. r = Spot(Len(meant) + 1, 1)
              BY <7>1, <7>2, EndReached
            <7> QED BY <7>3 DEF Spot
          <6> HIDE DEF r
          <6> QED BY <1>2, <4>3, <6>1
        <5>2. CASE kind # "ended"
          BY <1>5, <2>2, <2>4, <3>2, <4>1, <5>2
             DEF FileKinds, Answered, HasFile, HasOne, HasAsListed
        <5> QED BY <5>1, <5>2
      <4> QED BY <1>2, <3>2, <4>1, <4>2 DEF AnswerFile
    <3>4. returned = meant
      <4>1. DOMAIN returned = DOMAIN meant
        BY <1>2, <3>2
      <4>2. meant = [n \in DOMAIN meant |-> meant[n]]
        BY <1>1, SeqDef
      <4> QED BY <1>2, <3>2, <3>3, <4>1, <4>2
    <3> QED BY <2>4, <1>5, <3>4 DEF FileKinds
  <2> QED BY <2>3, <2>4
<1> QED BY <1>1, <1>3, <1>4, <1>5 DEF Kinds, FileKinds

\* Every step keeps what is known of the answer.
LEMMA AnswerStep ==
  ASSUME AnswerInv, [Next]_vars
  PROVE  AnswerInv'
<1>1. /\ Typed /\ Phases /\ ReadBehind /\ Counted /\ FilesHeld /\ AnswerIsWhole
      /\ Working => meant \in Answers(kind)
  BY DEF AnswerInv
<1>2. CASE Begin
  <2>1. /\ UNCHANGED <<method, ask, sent, closed, read, taken, got, server, status, meant, given>>
        /\ outcome = "new" /\ server = "receiving"
        /\ \/ outcome' = "calling" /\ held' = [held EXCEPT !.wanted = RowsAsked]
           \/ outcome' = "refused" /\ held' = held
    BY <1>1, <1>2 DEF Begin, serverVars, Phases
  <2>2. RowsAsked \in Nat /\ RowsAsked' = RowsAsked
    BY <1>1, <2>1, RowsAreCounted DEF Typed, Phases, Unanswered, RowsAsked
  <2>3. kind' = kind /\ answer' = answer /\ FileSection' = FileSection
    BY <2>1 DEF kind, answer, FileSection
  <2>4. /\ held' \in Held /\ held'.files = held.files /\ held'.metadata = held.metadata
        /\ held'.done = held.done /\ held'.count = held.count
        /\ outcome' = "calling" => held'.wanted = RowsAsked
        /\ held' = [NothingHeld EXCEPT !.wanted = held'.wanted]
    BY <1>1, <2>1, <2>2 DEF Typed, Held, Phases, Unanswered, NothingHeld
  <2>5. Typed' /\ Phases'
    BY <1>1, <2>1, <2>4 DEF Typed, Phases, Unanswered
  <2>6. ReadBehind' /\ FilesHeld'
    BY <1>1, <2>1, <2>3, <2>4 DEF ReadBehind, FilesHeld
  <2>7. ~Working /\ ~Working'
    BY <1>1, <2>1 DEF Working, Phases
  <2>8. Counted'
    BY <1>1, <2>1, <2>2, <2>3, <2>4, <2>7 DEF Counted, Unanswered
  <2>9. AnswerIsWhole'
    BY <2>1 DEF AnswerIsWhole
  <2> QED BY <2>5, <2>6, <2>7, <2>8, <2>9 DEF AnswerInv
<1>3. CASE ReceiveAnswer
  <2>1. /\ UNCHANGED <<method, ask, outcome, sent, closed, taken, got, server, status, meant, given>>
        /\ outcome = "calling" /\ read # given
    BY <1>3 DEF ReceiveAnswer, serverVars
  <2>2. held' \in Held /\ ReadBehind' /\ Counted' /\ FilesHeld'
    BY <1>3, ReadKeeps
  <2>3. ~Unanswered /\ ~Unanswered'
    BY <1>1, <2>1 DEF Phases, Unanswered
  <2>4. Typed' /\ Phases'
    BY <1>1, <2>1, <2>2, <2>3 DEF Typed, Phases
  <2>5. (Working => meant \in Answers(kind))' /\ AnswerIsWhole'
    BY <1>1, <2>1 DEF Working, kind, AnswerIsWhole
  <2> QED BY <2>2, <2>4, <2>5 DEF AnswerInv
<1>4. CASE Respond
  <2>1. /\ UNCHANGED <<method, outcome, sent, closed, read, held, taken, status, given>>
        /\ server = "accepted" /\ server' = "answering" /\ status = "open"
        /\ meant' \in Answers(kind) /\ (kind = "rows" => Len(meant') = RowsAsked)
    BY <1>4 DEF Respond, clientVars
  <2>2. kind' = kind /\ FileSection' = FileSection /\ kind \in Kinds
    BY <1>1, <2>1, AnswerShaped DEF kind, FileSection
  <2>3. Unanswered /\ ~Unanswered' /\ outcome \notin {"new", "refused", "ok"}
    BY <1>1, <2>1 DEF Unanswered, Phases
  <2>4. Typed'
    BY <1>1, <2>1, <2>2, AnswersTyped DEF Typed
  <2>5. /\ given = AnswerStart /\ read = AnswerStart
        /\ held = [NothingHeld EXCEPT !.wanted = held.wanted]
    BY <1>1, <2>3 DEF Phases
  <2>6. Phases'
    BY <1>1, <2>1, <2>3 DEF Phases
  <2>7. /\ answer' = AnswerShape(kind, meant') /\ meant' \in Seq(AnswerFile)
        /\ FileSection \in 2 .. 3
    BY <2>1, <2>2, <2>4 DEF answer, Typed, FileSection
  <2>8. ReadBehind'
    BY <2>1, <2>2, <2>5, <2>7, AnswerStarts DEF ReadBehind
  <2>9. Counted'
    <3>1. ~held'.metadata /\ ~held'.done
      BY <2>1, <2>5 DEF NothingHeld
    <3>2. kind' = "rows" => held'.wanted = Len(meant')
      BY <1>1, <2>1, <2>2, <2>3 DEF Counted
    <3> QED BY <2>3, <3>1, <3>2 DEF Counted
  <2>10. FilesHeld'
    <3>1. held'.files = <<>> /\ ~held'.done
      BY <2>1, <2>5 DEF NothingHeld
    <3>2. Gathered(<<>>, Spot(1, 1), meant')
      BY <2>7, NothingGathered
    <3>3. Reached(answer', read', FileSection') = Spot(1, 1)
      BY <2>1, <2>2, <2>5, <2>7, AnswerStarts
    <3> QED BY <3>1, <3>2, <3>3 DEF FilesHeld
  <2>11. AnswerIsWhole'
    BY <2>1, <2>3 DEF AnswerIsWhole
  <2> QED BY <2>1, <2>2, <2>4, <2>6, <2>8, <2>9, <2>10, <2>11 DEF AnswerInv
<1>5. CASE Answer
  <2>1. /\ UNCHANGED <<method, ask, outcome, sent, closed, read, held, taken, got, server, status, meant>>
        /\ server = "answering" /\ ~AtEnd(answer, given) /\ given' = After(answer, given)
    BY <1>5 DEF Answer, clientVars
  <2>2. kind' = kind /\ answer' = answer /\ FileSection' = FileSection
    BY <2>1 DEF kind, answer, FileSection
  <2>3. IsShape(answer)
    BY <1>1, AnswerShaped
  <2>4. ReadBehind'
    <3>1. IsPlace(answer, given') /\ Precedes(given, given')
      BY <1>1, <2>1, <2>3, AfterReached, AfterIsLater DEF ReadBehind
    <3>2. Precedes(read, given')
      BY <1>1, <3>1, PrecedesTransitive DEF ReadBehind
    <3> QED BY <1>1, <2>1, <2>2, <3>1, <3>2 DEF ReadBehind
  <2>5. Typed' /\ Phases' /\ Counted' /\ FilesHeld'
    BY <1>1, <2>1, <2>2 DEF Typed, Phases, Counted, FilesHeld, Unanswered, Working
  <2> QED BY <1>1, <2>1, <2>2, <2>4, <2>5 DEF AnswerInv, Working, AnswerIsWhole
<1>6. CASE QuietStep
  <2>1. /\ UNCHANGED <<method, ask, meant, given, read, held>>
        /\ Typed' /\ Phases' /\ (Unanswered' => Unanswered)
        /\ outcome' # outcome => outcome = "calling"
        /\ Working' => server = "answering" \/ status = "ok"
    BY <1>6, QuietSteps
  <2>2. /\ kind' = kind /\ answer' = answer /\ FileSection' = FileSection
        /\ RowsAsked' = RowsAsked
        /\ Working' => Working
    BY <2>1 DEF kind, answer, FileSection, RowsAsked, Working
  <2>3. ReadBehind' /\ FilesHeld'
    BY <1>1, <2>1, <2>2 DEF ReadBehind, FilesHeld
  <2>4. Counted'
    <3>1. held'.metadata \/ held'.done => held'.count = Len(meant')
      BY <1>1, <2>1 DEF Counted
    <3>2. kind' = "rows" /\ Working' => held'.wanted = Len(meant')
      BY <1>1, <2>1, <2>2 DEF Counted
    <3>3. Unanswered' /\ outcome' \notin {"new", "refused"} => held'.wanted = RowsAsked'
      BY <1>1, <2>1, <2>2 DEF Counted
    <3> QED BY <3>1, <3>2, <3>3 DEF Counted
  <2>6. Working' => meant' \in Answers(kind')
    BY <1>1, <2>1, <2>2
  <2>5. AnswerIsWhole'
    <3>1. CASE outcome' = "ok" /\ outcome # "ok"
      <4>1. ReceiveEnd /\ status = "ok" /\ Answered(held)
        BY <1>6, <3>1 DEF QuietStep, Send, SendSeesEnd, HalfClose, ReceiveEnd, Receive,
           Drained, EndWhole, EndEarly, Fail, clientVars
      <4> QED BY <2>1, <2>2, <4>1, WholeWhenAnswered DEF Working, AnswerIsWhole
    <3>2. CASE ~(outcome' = "ok" /\ outcome # "ok")
      BY <1>1, <2>1, <2>2, <3>2 DEF AnswerIsWhole
    <3> QED BY <3>1, <3>2
  <2> QED BY <2>1, <2>3, <2>4, <2>5, <2>6 DEF AnswerInv
<1>7. CASE Done \/ UNCHANGED vars
  <2>1. UNCHANGED vars
    BY <1>7 DEF Done
  <2>2. /\ kind' = kind /\ answer' = answer /\ FileSection' = FileSection
        /\ RowsAsked' = RowsAsked
    BY <2>1 DEF kind, answer, FileSection, RowsAsked, vars
  <2>3. Typed' /\ Phases' /\ ReadBehind' /\ Counted'
    BY <1>1, <2>1, <2>2 DEF vars, Typed, Phases, ReadBehind, Counted, Unanswered, Working
  <2>4. FilesHeld' /\ AnswerIsWhole' /\ (Working' => meant' \in Answers(kind'))
    BY <1>1, <2>1, <2>2 DEF vars, FilesHeld, AnswerIsWhole, Working
  <2> QED BY <2>3, <2>4 DEF AnswerInv
<1> QED BY <1>2, <1>3, <1>4, <1>5, <1>6, <1>7 DEF Next, QuietStep

\* What every run of a call keeps to on the way back.
THEOREM Answering == Spec => []AnswerInv
<1>1. Init => AnswerInv
  BY AnswerInit
<1>2. AnswerInv /\ [Next]_vars => AnswerInv'
  BY AnswerStep
<1> QED BY <1>1, <1>2, PTL DEF Spec

\* A call that succeeds hands over exactly what the server meant to answer
\* (AnswerIsWhole), however many files, and whatever they are called: even where names
\* repeat, the collector's checks let through no file cut short, lost or run into
\* another.
THEOREM AnswerWhole == Spec => []AnswerIsWhole
<1>1. AnswerInv => AnswerIsWhole
  BY DEF AnswerInv
<1> QED BY <1>1, Answering, PTL
------------------------------------------------------------------------------
(* What the server has of the request, at every step. *)

Whole(i, n) == [k \in 1 .. n |-> <<i, k>>]
WireName(part, i, file) == <<IF part.placed THEN i ELSE 0, file.name>>

\* The parts of the request, and what the caller passes of each.
Parts == MethodTable[method].parts
GivenFor(p) == ask.files[Parts[p].arm]

\* The files of a part as far as they were sent.
Arrived(part, files, r) ==
  [i \in 1 .. Begun(r) |->
     [name |-> WireName(part, i, files[i]),
      data |-> IF i < r.item THEN Whole(i, files[i].chunks) ELSE Whole(i, r.chunk - 1)]]

\* The server takes behind the client, which half-closes only when it has sent it all.
TakenBehind ==
  Unanswered =>
    /\ IsPlace(request, taken) /\ IsPlace(request, sent)
    /\ taken = sent \/ Precedes(taken, sent)
    /\ closed /\ status = "open" => AtEnd(request, sent)
    /\ server = "accepted" => AtEnd(request, taken)

HeadTaken ==
  /\ got = [head |-> got.head, alternative |-> got.alternative, ids |-> got.ids,
            last |-> got.last, files |-> got.files]
  /\ got.head \in BOOLEAN /\ got.last \in BOOLEAN
  /\ got.head <=> (~handler.head \/ taken.section > 1)
  /\ handler.head /\ got.head => got.alternative = ask.alternative /\ got.ids = ask.ids
  /\ handler.last /\ AtEnd(request, taken) => got.last

PartsTaken ==
  /\ got.files = [a \in DOMAIN handler.arms |-> got.files[a]]
  /\ \A a \in DOMAIN handler.arms \ PartArms(method) : got.files[a] = <<>>
  /\ IdsDistinct =>
       \A p \in DOMAIN Parts :
         got.files[Parts[p].arm] =
           Arrived(Parts[p], GivenFor(p), Reached(request, taken, p + 1))

RequestInv ==
  /\ TakenBehind
  /\ Unanswered => HeadTaken /\ PartsTaken
  /\ Unanswered /\ outcome # "new" => outcome = "refused" \/ Passes(method, ask)
  /\ RequestArrivesAsMeant

LEMMA WholeGrows ==
  ASSUME NEW i \in Nat, NEW k \in Nat, k >= 1
  PROVE  Whole(i, k - 1) \o << <<i, k>> >> = Whole(i, k)
<1> DEFINE old == Whole(i, k - 1)
           new == << <<i, k>> >>
<1>1. old \in Seq(Nat \X Nat) /\ new \in Seq(Nat \X Nat) /\ Whole(i, k) \in Seq(Nat \X Nat)
  BY IsASeq DEF Whole
<1>2. Len(old) = k - 1 /\ Len(new) = 1 /\ Len(Whole(i, k)) = k
  BY <1>1, LenProperties DEF Whole
<1>3. \A n \in 1 .. k : (old \o new)[n] = Whole(i, k)[n]
  <2> SUFFICES ASSUME NEW n \in 1 .. k PROVE (old \o new)[n] = Whole(i, k)[n]
    OBVIOUS
  <2>1. Whole(i, k)[n] = <<i, n>> /\ new[1] = <<i, k>>
    BY DEF Whole
  <2>2. n < k => old[n] = <<i, n>>
    BY DEF Whole
  <2> HIDE DEF old, new
  <2>3. /\ n < k => (old \o new)[n] = old[n]
        /\ n = k => (old \o new)[n] = new[1]
    <3>1. \A m \in 1 .. Len(old) + Len(new) :
            (old \o new)[m] = IF m <= Len(old) THEN old[m] ELSE new[m - Len(old)]
      BY <1>1, ConcatProperties
    <3>2. n \in 1 .. Len(old) + Len(new)
      BY <1>2
    <3>3. /\ n < k => n <= Len(old)
          /\ n = k => ~(n <= Len(old)) /\ n - Len(old) = 1
      BY <1>2
    <3> QED BY <3>1, <3>2, <3>3
  <2>4. n < k \/ n = k
    OBVIOUS
  <2> QED BY <2>1, <2>2, <2>3, <2>4
<1> HIDE DEF old, new
<1>4. old \o new \in Seq(Nat \X Nat) /\ Len(old \o new) = k
  <2>1. old \o new \in Seq(Nat \X Nat) /\ Len(old \o new) = Len(old) + Len(new)
    BY <1>1, ConcatProperties
  <2> QED BY <1>2, <2>1
<1> QED BY <1>1, <1>2, <1>3, <1>4, SeqEqual DEF old, new

ArrivedFile == [name : Nat \X Names, data : Seq(Nat \X Nat)]

LEMMA ArrivedTyped ==
  ASSUME NEW part, NEW files \in Seq(FileGiven), NEW i \in Nat, NEW k \in Nat \ {0},
         Begun(Spot(i, k)) \in 0 .. Len(files)
  PROVE  /\ Arrived(part, files, Spot(i, k)) \in Seq(ArrivedFile)
         /\ Len(Arrived(part, files, Spot(i, k))) = Begun(Spot(i, k))
<1> DEFINE n == Begun(Spot(i, k))
           arrived == Arrived(part, files, Spot(i, k))
<1>1. \A j \in 1 .. n : files[j] \in FileGiven
  <2>1. Len(files) \in Nat
    BY LenProperties
  <2> QED BY <2>1, ElementOfSeq
<1>2. \A j \in 1 .. n : files[j].name \in Names /\ files[j].chunks \in Nat
  BY <1>1 DEF FileGiven
<1>3. \A j, m \in Nat : Whole(j, m) \in Seq(Nat \X Nat)
  BY IsASeq DEF Whole
<1>4. arrived \in [1 .. n -> ArrivedFile]
  <2>1. ASSUME NEW j \in 1 .. n
        PROVE  [name |-> WireName(part, j, files[j]),
                data |-> IF j < Spot(i, k).item THEN Whole(j, files[j].chunks)
                         ELSE Whole(j, Spot(i, k).chunk - 1)] \in ArrivedFile
    <3>1. j \in Nat /\ files[j].name \in Names /\ files[j].chunks \in Nat
      BY <1>2
    <3>2. WireName(part, j, files[j]) \in Nat \X Names
      BY <3>1 DEF WireName
    <3>3. Spot(i, k).chunk - 1 \in Nat
      BY DEF Spot
    <3>4. Whole(j, files[j].chunks) \in Seq(Nat \X Nat) /\ Whole(j, Spot(i, k).chunk - 1) \in Seq(Nat \X Nat)
      BY <1>3, <3>1, <3>3
    <3> QED BY <3>2, <3>4 DEF ArrivedFile
  <2> HIDE DEF n
  <2> QED BY <2>1 DEF Arrived, n
<1> HIDE DEF n, arrived
<1>5. n \in Nat
  <2>1. Len(files) \in Nat
    BY LenProperties
  <2> QED BY <2>1 DEF n
<1>6. arrived \in Seq(ArrivedFile)
  BY <1>4, <1>5, SeqDef
<1>7. Len(arrived) = n
  BY <1>4, <1>5, <1>6, LenProperties
<1> QED BY <1>6, <1>7 DEF n, arrived

\* A chunk goes on with its own file, or begins it.
LEMMA ArrivedNext ==
  ASSUME NEW part, NEW files \in Seq(FileGiven), NEW i \in 1 .. Len(files),
         NEW k \in 1 .. FramesIn(files[i].chunks), NEW f,
         f.name = WireName(part, i, files[i]),
         f.data = IF files[i].chunks = 0 THEN <<>> ELSE << <<i, k>> >>
  PROVE  AppendChunk(Arrived(part, files, Spot(i, k)), i, f) =
           Arrived(part, files,
                   IF k < FramesIn(files[i].chunks) THEN Spot(i, k + 1) ELSE Spot(i + 1, 1))
<1> DEFINE old == Arrived(part, files, Spot(i, k))
           r == IF k < FramesIn(files[i].chunks) THEN Spot(i, k + 1) ELSE Spot(i + 1, 1)
           new == Arrived(part, files, r)
           size == files[i].chunks
<1>1. /\ Len(files) \in Nat /\ i \in Nat /\ i >= 1
      /\ size \in Nat
  <2>1. files[i] \in FileGiven
    BY ElementOfSeq
  <2> QED BY <2>1, LenProperties DEF FileGiven
<1> HIDE DEF size
<1>2. /\ k \in Nat /\ k >= 1
      /\ size = 0 => k = 1
      /\ size > 0 => k <= size
      /\ FramesIn(files[i].chunks) = IF size = 0 THEN 1 ELSE size
  BY <1>1 DEF FramesIn, size
<1>3. /\ Begun(Spot(i, k)) = (IF k > 1 THEN i ELSE i - 1)
      /\ Begun(r) = i
      /\ r.item = (IF size > k THEN i ELSE i + 1)
      /\ r.chunk = (IF size > k THEN k + 1 ELSE 1)
  BY <1>1, <1>2 DEF Begun, Spot
<1>4. \A j \in 1 .. i : files[j].chunks \in Nat
  <2>1. \A j \in 1 .. i : files[j] \in FileGiven
    BY <1>1, ElementOfSeq
  <2> QED BY <2>1 DEF FileGiven
<1>5. Spot(i, k).item = i /\ Spot(i, k).chunk = k
  BY DEF Spot
<1> HIDE DEF r
<1>6. old \in Seq(ArrivedFile) /\ Len(old) = Begun(Spot(i, k))
  <2>1. Begun(Spot(i, k)) \in 0 .. Len(files)
    BY <1>1, <1>2, <1>3
  <2> QED BY <1>1, <1>2, <2>1, ArrivedTyped
<1>7. new = [j \in 1 .. i |->
               [name |-> WireName(part, j, files[j]),
                data |-> IF j < r.item THEN Whole(j, files[j].chunks) ELSE Whole(j, r.chunk - 1)]]
  BY <1>3 DEF Arrived
<1>8. \A j \in 1 .. i - 1 :
        /\ j < r.item
        /\ new[j] = [name |-> WireName(part, j, files[j]), data |-> Whole(j, files[j].chunks)]
  BY <1>1, <1>3, <1>7
<1>9. new[i] = [name |-> f.name, data |-> Whole(i, k - 1) \o f.data]
  <2>1. CASE size = 0
    <3>1. Whole(i, k - 1) \o f.data = <<>>
      <4>1. Whole(i, k - 1) = <<>> /\ f.data = <<>>
        BY <1>2, <2>1 DEF Whole, size
      <4> QED BY <4>1, EmptySeq, ConcatEmptySeq
    <3>2. Whole(i, files[i].chunks) = <<>> /\ r.item = i + 1
      BY <1>2, <1>3, <2>1 DEF Whole, size
    <3> QED BY <1>1, <1>7, <3>1, <3>2
  <2>2. CASE size # 0
    <3>1. Whole(i, k - 1) \o f.data = Whole(i, k)
      BY <1>1, <1>2, <2>2, WholeGrows DEF size
    <3>2. i < r.item => k = files[i].chunks
      BY <1>1, <1>2, <1>3, <2>2 DEF size
    <3>3. ~(i < r.item) => r.chunk - 1 = k
      BY <1>1, <1>2, <1>3, <2>2
    <3>4. (IF i < r.item THEN Whole(i, files[i].chunks) ELSE Whole(i, r.chunk - 1)) = Whole(i, k)
      BY <3>2, <3>3
    <3>5. i \in 1 .. i
      BY <1>1
    <3>6. new[i] = [name |-> f.name, data |-> Whole(i, k)]
      BY <1>7, <3>4, <3>5
    <3> QED BY <3>1, <3>6
  <2> QED BY <2>1, <2>2
<1>12. new \in Seq(ArrivedFile) /\ Len(new) = i /\ new[i] \in ArrivedFile
  <2>1. r = Spot(r.item, r.chunk) /\ r.item \in Nat /\ r.chunk \in Nat \ {0}
    BY <1>1, <1>2, <1>3 DEF r, Spot
  <2>2. new \in Seq(ArrivedFile) /\ Len(new) = i
    <3>1. Begun(Spot(r.item, r.chunk)) = i /\ i \in 0 .. Len(files)
      BY <1>1, <1>3, <2>1
    <3> QED BY <2>1, <3>1, ArrivedTyped
  <2> HIDE DEF new
  <2> QED BY <1>1, <2>2, ElementOfSeq
<1>10. CASE k = 1
  <2>1. Whole(i, k - 1) \o f.data = f.data
    <3>1. Whole(i, k - 1) = <<>>
      BY <1>10 DEF Whole
    <3>2. f.data \in Seq(Nat \X Nat)
      <4>1. << <<i, k>> >> \in Seq(Nat \X Nat) /\ <<>> \in Seq(Nat \X Nat)
        BY <1>1, <1>2, EmptySeq
      <4> QED BY <4>1
    <3> QED BY <3>1, <3>2, ConcatEmptySeq
  <2>2. AppendChunk(old, i, f) = Append(old, [name |-> f.name, data |-> f.data])
    BY <1>1, <1>3, <1>6, <1>10 DEF AppendChunk
  <2>3. new[i] = [name |-> f.name, data |-> f.data]
    BY <1>9, <2>1
  <2>4. \A j \in 1 .. i - 1 : old[j] = new[j]
    <3>1. old = [j \in 1 .. i - 1 |->
                   [name |-> WireName(part, j, files[j]),
                    data |-> IF j < i THEN Whole(j, files[j].chunks) ELSE Whole(j, k - 1)]]
      BY <1>2, <1>3, <1>5, <1>10 DEF Arrived
    <3> QED BY <1>1, <1>8, <3>1
  <2> HIDE DEF new, old
  <2> DEFINE longer == Append(old, new[i])
  <2>5. /\ longer \in Seq(ArrivedFile) /\ Len(longer) = i
        /\ \A j \in 1 .. i - 1 : longer[j] = old[j]
        /\ longer[i] = new[i]
    <3>1. Len(old) = i - 1
      BY <1>1, <1>3, <1>6, <1>10
    <3> QED BY <1>1, <1>6, <1>12, <3>1, AppendProperties
  <2> HIDE DEF longer
  <2>6. \A j \in 1 .. i : longer[j] = new[j]
    BY <1>1, <2>4, <2>5
  <2>7. longer = new
    BY <1>12, <2>5, <2>6, SeqEqual
  <2> QED BY <2>2, <2>3, <2>7 DEF longer, old, new, r
<1>11. CASE k # 1
  <2>1. Len(old) = i
    BY <1>1, <1>2, <1>3, <1>6, <1>11
  <2>2. old = [j \in 1 .. i |->
                 [name |-> WireName(part, j, files[j]),
                  data |-> IF j < i THEN Whole(j, files[j].chunks) ELSE Whole(j, k - 1)]]
    BY <1>2, <1>3, <1>5, <1>11 DEF Arrived
  <2> HIDE DEF old, new
  <2>3. old[i] = [name |-> f.name, data |-> Whole(i, k - 1)]
    BY <1>1, <2>2
  <2>4. AppendChunk(old, i, f) = [old EXCEPT ![i].data = @ \o f.data]
    BY <1>1, <2>1 DEF AppendChunk
  <2>5. [old EXCEPT ![i].data = @ \o f.data] = [old EXCEPT ![i] = new[i]]
    <3>1. [old[i] EXCEPT !.data = @ \o f.data] = new[i]
      <4> DEFINE data == Whole(i, k - 1) \o f.data
      <4>1. old[i].data \o f.data = data
        BY <2>3
      <4>2. [old[i] EXCEPT !.data = @ \o f.data] = [old[i] EXCEPT !.data = old[i].data \o f.data]
        OBVIOUS
      <4>3. new[i] = [name |-> f.name, data |-> data]
        BY <1>9
      <4> HIDE DEF data
      <4>4. [old[i] EXCEPT !.data = data] = [name |-> f.name, data |-> data]
        BY <2>3
      <4> QED BY <4>1, <4>2, <4>3, <4>4
    <3>2. [old EXCEPT ![i].data = @ \o f.data] =
            [old EXCEPT ![i] = [old[i] EXCEPT !.data = @ \o f.data]]
      OBVIOUS
    <3> QED BY <3>1, <3>2
  <2>6. \A j \in 1 .. i - 1 : old[j] = new[j]
    BY <1>1, <1>8, <2>2
  <2> DEFINE longer == [old EXCEPT ![i] = new[i]]
  <2>7. /\ longer \in Seq(ArrivedFile) /\ Len(longer) = i
        /\ \A j \in 1 .. i : longer[j] = IF j = i THEN new[i] ELSE old[j]
    BY <1>1, <1>6, <1>12, <2>1, ExceptSeq
  <2> HIDE DEF longer
  <2>8. \A j \in 1 .. i : longer[j] = new[j]
    BY <1>1, <2>6, <2>7
  <2>9. longer = new
    BY <1>12, <2>7, <2>8, SeqEqual
  <2> QED BY <2>4, <2>5, <2>9 DEF longer, old, new, r
<1> QED BY <1>2, <1>10, <1>11 DEF r

\* The shape of a request is that of what the caller passes.
LEMMA RequestShaped ==
  ASSUME NEW m \in Methods, NEW a \in Asks(m)
  PROVE  LET parts == MethodTable[m].parts
             shape == RequestShape(m, a)
         IN /\ IsShape(shape) /\ Len(shape) = Len(parts) + 1 /\ Len(parts) \in 0 .. 3
            /\ shape[1] = IF MethodTable[m].head THEN <<1>> ELSE <<>>
            /\ \A p \in DOMAIN parts :
                 /\ p \in 1 .. Len(parts) /\ p + 1 \in 1 .. Len(shape)
                 /\ Len(shape[p + 1]) = Len(a.files[parts[p].arm])
                 /\ \A i \in 1 .. Len(a.files[parts[p].arm]) :
                      shape[p + 1][i] = FramesIn(a.files[parts[p].arm][i].chunks)
<1> DEFINE parts == MethodTable[m].parts
           shape == RequestShape(m, a)
           files(p) == a.files[parts[p].arm]
           section(p) == [i \in DOMAIN files(p) |-> FramesIn(files(p)[i].chunks)]
           first == IF MethodTable[m].head THEN <<1>> ELSE <<>>
<1>1. Len(parts) \in 0 .. 3 /\ DOMAIN parts = 1 .. Len(parts)
  BY TablesAgree DEF Agree, PartsFit
<1>2. ASSUME NEW p \in DOMAIN parts
      PROVE  /\ section(p) \in Seq(Nat \ {0}) /\ Len(section(p)) = Len(files(p))
             /\ \A i \in 1 .. Len(files(p)) : section(p)[i] = FramesIn(files(p)[i].chunks)
  <2>1. files(p) \in Seq(FileGiven)
    BY FilesOfPart
  <2> HIDE DEF files
  <2>2. /\ Len(files(p)) \in Nat /\ DOMAIN files(p) = 1 .. Len(files(p))
        /\ \A i \in 1 .. Len(files(p)) : files(p)[i] \in FileGiven
    BY <2>1, LenProperties, ElementOfSeq
  <2>3. \A i \in 1 .. Len(files(p)) : FramesIn(files(p)[i].chunks) \in Nat \ {0}
    BY <2>2 DEF FramesIn, FileGiven
  <2>4. section(p) \in Seq(Nat \ {0})
    BY <2>2, <2>3, SeqDef
  <2> QED BY <2>2, <2>4, LenProperties
<1>3. first \in Seq(Nat \ {0})
  <2>1. <<1>> \in Seq(Nat \ {0})
    OBVIOUS
  <2>2. <<>> \in Seq(Nat \ {0})
    BY EmptySeq
  <2> QED BY <2>1, <2>2
<1>4. shape = [s \in 1 .. Len(parts) + 1 |-> IF s = 1 THEN first ELSE section(s - 1)]
  BY DEF RequestShape
<1> HIDE DEF parts, shape, section, first
<1>5. \A s \in 1 .. Len(parts) + 1 : s = 1 \/ s - 1 \in DOMAIN parts
  BY <1>1
<1>6. shape \in Seq(Seq(Nat \ {0}))
  <2>1. \A s \in 1 .. Len(parts) + 1 : shape[s] \in Seq(Nat \ {0})
    BY <1>2, <1>3, <1>4, <1>5
  <2>2. Len(parts) + 1 \in Nat
    BY <1>1
  <2> QED BY <1>4, <2>1, <2>2, SeqDef
<1>7. Len(shape) = Len(parts) + 1
  BY <1>1, <1>4, <1>6, LenProperties
<1>8. shape[1] = first
  BY <1>1, <1>4
<1>9. ASSUME NEW p \in DOMAIN parts
      PROVE  /\ p \in 1 .. Len(parts) /\ p + 1 \in 1 .. Len(shape)
             /\ shape[p + 1] = section(p)
  <2>1. p \in 1 .. Len(parts) /\ p + 1 \in 1 .. Len(parts) + 1 /\ p + 1 # 1 /\ (p + 1) - 1 = p
    BY <1>1
  <2> QED BY <1>4, <1>7, <2>1
<1> QED BY <1>1, <1>2, <1>6, <1>7, <1>8, <1>9 DEF IsShape, parts, shape, first

\* Where nothing of a part has been taken, or all of it.
LEMMA ArrivedEnds ==
  ASSUME NEW part, NEW files \in Seq(FileGiven)
  PROVE  /\ Arrived(part, files, Spot(1, 1)) = <<>>
         /\ LET all == Arrived(part, files, Spot(Len(files) + 1, 1))
            IN /\ DOMAIN all = 1 .. Len(files)
               /\ \A i \in 1 .. Len(files) :
                    /\ all[i].name = WireName(part, i, files[i])
                    /\ all[i].data = Whole(i, files[i].chunks)
<1>1. Len(files) \in Nat
  BY LenProperties
<1>2. Begun(Spot(1, 1)) = 0 /\ Begun(Spot(Len(files) + 1, 1)) = Len(files)
  BY <1>1 DEF Begun, Spot
<1>3. Arrived(part, files, Spot(1, 1)) = <<>>
  BY <1>2 DEF Arrived
<1> QED BY <1>1, <1>2, <1>3 DEF Arrived, Spot

\* The request of the call, and what both sides agree on about it.
LEMMA RequestIs ==
  ASSUME Typed, Phases, Unanswered
  PROVE  /\ IsShape(request) /\ Len(request) = Len(Parts) + 1
         /\ Len(Parts) \in 0 .. 3 /\ DOMAIN Parts = 1 .. Len(Parts)
         /\ handler.head \in BOOLEAN /\ request[1] = IF handler.head THEN <<1>> ELSE <<>>
         /\ \A p \in DOMAIN Parts :
              /\ p \in 1 .. Len(Parts) /\ p + 1 \in 1 .. Len(request)
              /\ GivenFor(p) \in Seq(FileGiven) /\ Len(GivenFor(p)) \in Nat
              /\ DOMAIN GivenFor(p) = 1 .. Len(GivenFor(p))
              /\ Len(GivenFor(p)) >= Parts[p].least /\ Len(GivenFor(p)) <= Parts[p].most
              /\ Len(request[p + 1]) = Len(GivenFor(p))
              /\ \A i \in 1 .. Len(GivenFor(p)) :
                   request[p + 1][i] = FramesIn(GivenFor(p)[i].chunks)
<1>1. method \in Methods /\ ask \in Asks(method) /\ request = RequestShape(method, ask)
  BY DEF Typed, Phases, request
<1>2. Agree(method)
  BY <1>1, TablesAgree
<1>3. handler.head = MethodTable[method].head /\ handler.head \in BOOLEAN
  BY <1>2 DEF Agree, ArmsFit, handler
<1>4. /\ IsShape(request) /\ Len(request) = Len(Parts) + 1
      /\ Len(Parts) \in 0 .. 3
      /\ request[1] = IF handler.head THEN <<1>> ELSE <<>>
      /\ \A p \in DOMAIN Parts :
           /\ p \in 1 .. Len(Parts) /\ p + 1 \in 1 .. Len(request)
           /\ Len(request[p + 1]) = Len(GivenFor(p))
           /\ \A i \in 1 .. Len(GivenFor(p)) :
                request[p + 1][i] = FramesIn(GivenFor(p)[i].chunks)
  BY <1>1, <1>3, RequestShaped DEF Parts, GivenFor
<1>5. DOMAIN Parts = 1 .. Len(Parts)
  BY <1>2 DEF Agree, PartsFit, Parts
<1>6. \A p \in DOMAIN Parts :
        /\ GivenFor(p) \in Seq(FileGiven) /\ Len(GivenFor(p)) \in Nat
        /\ Len(GivenFor(p)) >= Parts[p].least /\ Len(GivenFor(p)) <= Parts[p].most
  BY <1>1, FilesOfPart DEF Parts, GivenFor
<1>7. \A p \in DOMAIN Parts : DOMAIN GivenFor(p) = 1 .. Len(GivenFor(p))
  BY <1>6, LenProperties
<1> QED BY <1>3, <1>4, <1>5, <1>6, <1>7

\* What the order of the parts has to do with that of the arms.
LEMMA PartsAgree ==
  ASSUME method \in Methods
  PROVE  /\ handler.last => 1 \in DOMAIN Parts /\ Parts[1].least = 1
         /\ \A p, q \in DOMAIN Parts : Parts[p].arm = Parts[q].arm => p = q
         /\ \A p \in DOMAIN Parts :
              /\ Parts[p].arm \in DOMAIN handler.arms
              /\ \A a \in handler.arms[Parts[p].arm].before :
                   a \in DOMAIN handler.arms /\ \A q \in DOMAIN Parts : Parts[q].arm = a => p < q
              /\ \A a \in handler.arms[Parts[p].arm].after :
                   /\ ~handler.bytes
                   /\ \E q \in 1 .. p - 1 :
                        /\ Parts[q].arm = a
                        /\ \/ Parts[q].least = 1
                           \/ /\ method = "GenerateVideo" /\ a = "first_frame"
                              /\ Parts[p].arm = "last_frame"
<1>1. PartsFit(method) /\ ArmsFit(method) /\ OrderFits(method)
  BY TablesAgree DEF Agree
<1>2. handler.last => 1 \in DOMAIN Parts /\ Parts[1].least = 1
  <2>1. DOMAIN Parts = 1 .. Len(Parts) /\ Len(Parts) \in 0 .. 3
    BY <1>1 DEF PartsFit, Parts
  <2>2. handler.last => DOMAIN Parts # {} /\ \A p \in DOMAIN Parts : Parts[p].least = 1
    BY <1>1 DEF ArmsFit, handler, Parts
  <2>3. DOMAIN Parts # {} => 1 \in DOMAIN Parts
    BY <2>1
  <2> QED BY <2>2, <2>3
<1>3. /\ \A p, q \in DOMAIN Parts : Parts[p].arm = Parts[q].arm => p = q
      /\ \A p \in DOMAIN Parts : Parts[p].arm \in DOMAIN handler.arms
  BY <1>1 DEF PartsFit, ArmsFit, handler, Parts
<1>4. \A p \in DOMAIN Parts :
        /\ \A a \in handler.arms[Parts[p].arm].before :
             a \in DOMAIN handler.arms /\ \A q \in DOMAIN Parts : Parts[q].arm = a => p < q
        /\ \A a \in handler.arms[Parts[p].arm].after :
             /\ ~handler.bytes
             /\ \E q \in 1 .. p - 1 :
                  /\ Parts[q].arm = a
                  /\ \/ Parts[q].least = 1
                     \/ /\ method = "GenerateVideo" /\ a = "first_frame"
                        /\ Parts[p].arm = "last_frame"
  BY <1>1 DEF OrderFits, handler, Parts
<1> QED BY <1>2, <1>3, <1>4

\* The names of what arrived before the chunk k of the file i.
LEMMA ArrivedNames ==
  ASSUME NEW part, NEW files \in Seq(FileGiven), NEW i \in 1 .. Len(files), NEW k \in Nat \ {0}
  PROVE  LET old == Arrived(part, files, Spot(i, k))
         IN /\ old \in Seq(ArrivedFile) /\ Len(old) = IF k > 1 THEN i ELSE i - 1
            /\ DOMAIN old = 1 .. Len(old)
            /\ \A j \in 1 .. Len(old) : old[j].name = WireName(part, j, files[j])
<1> DEFINE old == Arrived(part, files, Spot(i, k))
<1>1. Len(files) \in Nat
  BY LenProperties
<1>2. Begun(Spot(i, k)) = (IF k > 1 THEN i ELSE i - 1)
  BY DEF Begun, Spot
<1>3. old \in Seq(ArrivedFile) /\ Len(old) = Begun(Spot(i, k))
  BY <1>1, <1>2, ArrivedTyped
<1>4. \A j \in 1 .. Begun(Spot(i, k)) : old[j].name = WireName(part, j, files[j])
  BY DEF Arrived
<1> HIDE DEF old
<1>5. DOMAIN old = 1 .. Len(old)
  BY <1>3, LenProperties
<1> QED BY <1>2, <1>3, <1>4, <1>5 DEF old

\* A handler that tells files apart by their names is given different ones.
LEMMA NamesDistinct ==
  ASSUME Typed, Phases, Unanswered, Passes(method, ask), IdsDistinct,
         NEW p \in DOMAIN Parts, handler.arms[Parts[p].arm].fold \in {"byId", "keyed"}
  PROVE  /\ ~Parts[p].placed
         /\ \A i, j \in 1 .. Len(GivenFor(p)) :
              i # j => GivenFor(p)[i].name # GivenFor(p)[j].name
         /\ handler.arms[Parts[p].arm].fold = "byId" =>
              /\ handler.head /\ Parts[p].arm = "asset"
              /\ \A i \in 1 .. Len(GivenFor(p)) : GivenFor(p)[i].name \in ask.ids \ {NoName}
<1>1. ArmsFit(method)
  BY TablesAgree DEF Typed, Agree
<1>2. DOMAIN GivenFor(p) = 1 .. Len(GivenFor(p))
  BY RequestIs
<1>3. CASE handler.arms[Parts[p].arm].fold = "byId"
  <2>1. /\ method = "Render" /\ handler.head /\ Parts[p].arm = "asset" /\ ~Parts[p].placed
        /\ GivenFor(p) = ask.files.asset
    BY <1>1, <1>3 DEF ArmsFit, handler, Parts, GivenFor
  <2>2. CheckAssets(ask)
    BY <2>1 DEF Passes
  <2>3. \A i \in 1 .. Len(GivenFor(p)) : GivenFor(p)[i].name \in ask.ids \ {NoName}
    BY <1>2, <2>1, <2>2 DEF CheckAssets, GivenIds
  <2> QED BY <1>2, <2>1, <2>2, <2>3 DEF CheckAssets
<1>4. CASE handler.arms[Parts[p].arm].fold = "keyed"
  <2>1. /\ method = "CompleteWithAttachments" /\ ~Parts[p].placed
        /\ GivenFor(p) = ask.files.attachment
    BY <1>1, <1>4 DEF ArmsFit, handler, Parts, GivenFor
  <2> QED BY <1>2, <1>4, <2>1 DEF IdsDistinct
<1> QED BY <1>3, <1>4

\* A chunk is put where it belongs, however the handler finds its file.
LEMMA InItsPlace ==
  ASSUME Typed, Phases, Unanswered, Passes(method, ask), IdsDistinct,
         NEW p \in DOMAIN Parts, NEW i \in 1 .. Len(GivenFor(p)), NEW k \in Nat \ {0},
         NEW f, f.name = WireName(Parts[p], i, GivenFor(p)[i])
  PROVE  FileIndex(handler.arms[Parts[p].arm].fold,
                   Arrived(Parts[p], GivenFor(p), Spot(i, k)), f) = i
<1> DEFINE old == Arrived(Parts[p], GivenFor(p), Spot(i, k))
           fold == handler.arms[Parts[p].arm].fold
           n == Len(old)
           name(j) == GivenFor(p)[j].name
<1>1. /\ GivenFor(p) \in Seq(FileGiven) /\ Len(GivenFor(p)) \in Nat
      /\ Len(GivenFor(p)) <= Parts[p].most
  BY RequestIs
<1>2. /\ n = (IF k > 1 THEN i ELSE i - 1) /\ DOMAIN old = 1 .. n
      /\ \A j \in 1 .. n : old[j].name = WireName(Parts[p], j, GivenFor(p)[j])
  BY <1>1, ArrivedNames
<1>3. \/ fold = "single" /\ Parts[p].most = 1
      \/ fold = "byName" /\ Parts[p].placed
      \/ fold \in {"byId", "keyed"}
  BY TablesAgree DEF Typed, Agree, ArmsFit, handler, Parts
<1>4. i \in Nat /\ i >= 1 /\ k \in Nat /\ k >= 1 /\ i <= Len(GivenFor(p))
  BY <1>1
<1> HIDE DEF old, n, fold, name
<1>5. CASE fold = "single" /\ Parts[p].most = 1
  <2>1. i = 1
    BY <1>1, <1>4, <1>5
  <2> QED BY <1>5, <2>1 DEF FileIndex, fold
<1>6. CASE fold = "byName" /\ Parts[p].placed
  <2>1. \A j \in 1 .. n : old[j].name = <<j, name(j)>>
    BY <1>2, <1>6 DEF WireName, name
  <2>2. f.name = <<i, name(i)>>
    BY <1>6 DEF WireName, name
  <2>3. FileIndex(fold, old, f) = IF n > 0 /\ old[n].name = f.name THEN n ELSE n + 1
    BY <1>6 DEF FileIndex, n
  <2>4. n > 0 => old[n].name = <<n, name(n)>>
    BY <1>2, <1>4, <2>1
  <2> QED BY <1>2, <1>4, <1>6, <2>2, <2>3, <2>4 DEF old, fold
<1>7. CASE fold \in {"byId", "keyed"}
  <2>1. /\ ~Parts[p].placed
        /\ \A j, m \in 1 .. Len(GivenFor(p)) : j # m => name(j) # name(m)
        /\ fold = "byId" =>
             \A j \in 1 .. Len(GivenFor(p)) : name(j) \in ask.ids \ {NoName}
    BY <1>7, NamesDistinct DEF fold, name
  <2>2. /\ \A j \in 1 .. n : old[j].name = <<0, name(j)>>
        /\ f.name = <<0, name(i)>>
    BY <1>2, <2>1 DEF WireName, name
  <2>3. \A j \in 1 .. n : j \in 1 .. Len(GivenFor(p)) /\ j <= i
    BY <1>1, <1>2, <1>4
  <2>4. \A j \in 1 .. n : old[j].name = f.name <=> j = i
    BY <2>1, <2>2, <2>3
  <2>5. CASE fold = "byId"
    <3>1. f.name[2] # NoName
      BY <2>1, <2>2, <2>5
    <3>2. FileIndex(fold, old, f) = IF n > 0 /\ old[n].name = f.name THEN n ELSE n + 1
      BY <2>5, <3>1 DEF FileIndex, n
    <3>3. FileIndex(fold, old, f) = i
      BY <1>2, <1>4, <2>4, <3>2
    <3> QED BY <3>3 DEF old, fold
  <2>6. CASE fold = "keyed"
    <3>1. FileIndex(fold, old, f) =
            IF \E j \in 1 .. n : old[j].name = f.name
            THEN CHOOSE j \in 1 .. n : old[j].name = f.name ELSE n + 1
      BY <2>6 DEF FileIndex, n
    <3>2. CASE k > 1
      <4>1. n = i /\ i \in 1 .. n
        BY <1>2, <1>4, <3>2
      <4>2. \E j \in 1 .. n : old[j].name = f.name
        BY <2>4, <4>1
      <4>3. (CHOOSE j \in 1 .. n : old[j].name = f.name) = i
        BY <2>4, <4>2
      <4> QED BY <2>6, <3>1, <4>2, <4>3 DEF old, fold
    <3>3. CASE ~(k > 1)
      <4>1. n = i - 1
        BY <1>2, <3>3
      <4>2. ~\E j \in 1 .. n : old[j].name = f.name
        BY <1>4, <2>4, <4>1
      <4>3. FileIndex(fold, old, f) = n + 1
        BY <3>1, <4>2
      <4> QED BY <1>4, <2>6, <4>1, <4>3 DEF old, fold
    <3> QED BY <3>2, <3>3
  <2> QED BY <1>7, <2>5, <2>6
<1> QED BY <1>3, <1>5, <1>6, <1>7

\* A chunk that begins an asset carries an id of the timeline, a new one.
LEMMA BeginsAsset ==
  ASSUME Typed, Phases, Unanswered, Passes(method, ask), IdsDistinct,
         NEW p \in DOMAIN Parts, NEW i \in 1 .. Len(GivenFor(p)), NEW k \in Nat \ {0},
         NEW f, f.name = WireName(Parts[p], i, GivenFor(p)[i]),
         handler.arms[Parts[p].arm].fold = "byId",
         i > Len(Arrived(Parts[p], GivenFor(p), Spot(i, k)))
  PROVE  /\ f.name[2] \in ask.ids \ {NoName}
         /\ \A j \in DOMAIN Arrived(Parts[p], GivenFor(p), Spot(i, k)) :
              Arrived(Parts[p], GivenFor(p), Spot(i, k))[j].name # f.name
<1> DEFINE old == Arrived(Parts[p], GivenFor(p), Spot(i, k))
<1>1. GivenFor(p) \in Seq(FileGiven) /\ Len(GivenFor(p)) \in Nat
  BY RequestIs
<1>2. /\ DOMAIN old = 1 .. Len(old)
      /\ \A j \in 1 .. Len(old) : old[j].name = WireName(Parts[p], j, GivenFor(p)[j])
      /\ Len(old) \in Nat
  BY <1>1, ArrivedNames, LenProperties
<1>3. /\ ~Parts[p].placed
      /\ \A j, m \in 1 .. Len(GivenFor(p)) : j # m => GivenFor(p)[j].name # GivenFor(p)[m].name
      /\ GivenFor(p)[i].name \in ask.ids \ {NoName}
  BY NamesDistinct
<1>4. \A j \in 1 .. Len(old) : j \in 1 .. Len(GivenFor(p)) /\ j # i
  BY <1>1, <1>2
<1>5. /\ f.name = <<0, GivenFor(p)[i].name>>
      /\ \A j \in 1 .. Len(old) : old[j].name = <<0, GivenFor(p)[j].name>>
  BY <1>2, <1>3 DEF WireName
<1> HIDE DEF old
<1>6. \A j \in DOMAIN old : old[j].name # f.name
  BY <1>2, <1>3, <1>4, <1>5
<1> QED BY <1>3, <1>5, <1>6 DEF old

\* A frame on its way is the head, or a chunk of a file the caller passed.
LEMMA FrameIs ==
  ASSUME Typed, Phases, Unanswered, NEW at, IsPlace(request, at), ~AtEnd(request, at)
  PROVE  LET f == FrameAt(method, ask, at)
             p == at.section - 1
         IN \/ at.section = 1 /\ handler.head /\ f = HeadFrame
            \/ /\ at.section > 1 /\ p \in DOMAIN Parts /\ at.section = p + 1
               /\ at.item \in 1 .. Len(GivenFor(p))
               /\ at.chunk \in 1 .. FramesIn(GivenFor(p)[at.item].chunks)
               /\ at.chunk \in Nat \ {0}
               /\ f.arm = Parts[p].arm /\ f.arm # "head"
               /\ f.name = WireName(Parts[p], at.item, GivenFor(p)[at.item])
               /\ f.data = IF GivenFor(p)[at.item].chunks = 0 THEN <<>>
                           ELSE << <<at.item, at.chunk>> >>
               /\ f.last = SaysLast(method, ask, at)
<1> DEFINE f == FrameAt(method, ask, at)
           p == at.section - 1
<1>1. /\ IsShape(request) /\ Len(request) = Len(Parts) + 1 /\ Len(Parts) \in Nat
      /\ DOMAIN Parts = 1 .. Len(Parts)
  BY RequestIs
<1>2. /\ at.section \in 1 .. Len(request) /\ at.item \in 1 .. Len(request[at.section])
      /\ at.chunk \in 1 .. request[at.section][at.item]
      /\ at.section \in Nat /\ at.item \in Nat /\ at.chunk \in Nat
  BY <1>1 DEF IsPlace, AtEnd
<1>3. CASE at.section = 1
  <2>1. handler.head
    <3>1. Len(<<>>) = 0
      OBVIOUS
    <3> QED BY <1>2, <1>3, <3>1, RequestIs
  <2> QED BY <1>3, <2>1 DEF FrameAt
<1>4. CASE at.section # 1
  <2>1. p \in DOMAIN Parts /\ at.section = p + 1 /\ at.section > 1
    BY <1>1, <1>2, <1>4
  <2>2. /\ at.item \in 1 .. Len(GivenFor(p))
        /\ at.chunk \in 1 .. FramesIn(GivenFor(p)[at.item].chunks)
    BY <1>2, <2>1, RequestIs
  <2>3. f = ChunkFrame(method, ask, at)
    BY <1>4 DEF FrameAt
  <2>4. at.chunk \in Nat \ {0}
    BY <1>2, <2>2
  <2>5. Parts[p].arm # "head"
    BY <2>1, TablesAgree DEF Typed, Agree, PartsFit, Parts
  <2>6. f = [arm |-> Parts[p].arm, name |-> WireName(Parts[p], at.item, GivenFor(p)[at.item]),
             data |-> IF GivenFor(p)[at.item].chunks = 0 THEN <<>> ELSE << <<at.item, at.chunk>> >>,
             last |-> SaysLast(method, ask, at)]
    BY <2>3 DEF ChunkFrame, WireName, Parts, GivenFor
  <2> HIDE DEF f, p
  <2> QED BY <2>1, <2>2, <2>4, <2>5, <2>6 DEF f, p
<1> QED BY <1>3, <1>4

\* What has arrived of a part before its turn, and after it.
LEMMA ArrivedOfPart ==
  ASSUME Typed, Phases, Unanswered, PartsTaken, IdsDistinct, NEW p \in DOMAIN Parts
  PROVE  /\ taken.section < p + 1 => got.files[Parts[p].arm] = <<>>
         /\ Reached(request, taken, p + 1) = Spot(Len(GivenFor(p)) + 1, 1) =>
              /\ DOMAIN got.files[Parts[p].arm] = 1 .. Len(GivenFor(p))
              /\ \A i \in 1 .. Len(GivenFor(p)) :
                   /\ got.files[Parts[p].arm][i].name = WireName(Parts[p], i, GivenFor(p)[i])
                   /\ got.files[Parts[p].arm][i].data = Whole(i, GivenFor(p)[i].chunks)
<1>1. got.files[Parts[p].arm] = Arrived(Parts[p], GivenFor(p), Reached(request, taken, p + 1))
  BY DEF PartsTaken
<1>2. GivenFor(p) \in Seq(FileGiven)
  BY RequestIs
<1>3. taken.section < p + 1 => Reached(request, taken, p + 1) = Spot(1, 1)
  BY DEF Reached
<1>4. taken.section < p + 1 => got.files[Parts[p].arm] = <<>>
  BY <1>1, <1>2, <1>3, ArrivedEnds
<1>5. ASSUME Reached(request, taken, p + 1) = Spot(Len(GivenFor(p)) + 1, 1)
      PROVE  /\ DOMAIN got.files[Parts[p].arm] = 1 .. Len(GivenFor(p))
             /\ \A i \in 1 .. Len(GivenFor(p)) :
                  /\ got.files[Parts[p].arm][i].name = WireName(Parts[p], i, GivenFor(p)[i])
                  /\ got.files[Parts[p].arm][i].data = Whole(i, GivenFor(p)[i].chunks)
  <2>1. got.files[Parts[p].arm] = Arrived(Parts[p], GivenFor(p), Spot(Len(GivenFor(p)) + 1, 1))
    BY <1>1, <1>5
  <2>2. LET all == Arrived(Parts[p], GivenFor(p), Spot(Len(GivenFor(p)) + 1, 1))
        IN /\ DOMAIN all = 1 .. Len(GivenFor(p))
           /\ \A i \in 1 .. Len(GivenFor(p)) :
                /\ all[i].name = WireName(Parts[p], i, GivenFor(p)[i])
                /\ all[i].data = Whole(i, GivenFor(p)[i].chunks)
    BY <1>2, ArrivedEnds
  <2> QED BY <2>1, <2>2
<1> QED BY <1>4, <1>5

\* The handler refuses no frame of a request that passed the local checks.
LEMMA NoneRefused ==
  ASSUME Typed, Phases, Unanswered, HeadTaken, PartsTaken, Passes(method, ask),
         IsPlace(request, taken), ~AtEnd(request, taken)
  PROVE  ~Refused(handler, got, FrameAt(method, ask, taken))
<1> DEFINE f == FrameAt(method, ask, taken)
           p == taken.section - 1
           i == taken.item
           k == taken.chunk
<1>1. CASE taken.section = 1
  <2>1. f.arm = "head" /\ handler.head
    <3>1. f.arm = "head"
      BY <1>1 DEF FrameAt, HeadFrame
    <3>2. handler.head \/ taken.section > 1
      BY FrameIs
    <3> QED BY <1>1, <3>1, <3>2
  <2>2. ~got.head
    BY <1>1, <2>1 DEF HeadTaken
  <2> QED BY <2>1, <2>2 DEF Refused
<1>2. CASE taken.section # 1
  <2>1. /\ taken.section > 1 /\ p \in DOMAIN Parts /\ taken.section = p + 1
        /\ i \in 1 .. Len(GivenFor(p)) /\ k \in Nat \ {0}
        /\ f.arm = Parts[p].arm /\ f.arm # "head"
        /\ f.name = WireName(Parts[p], i, GivenFor(p)[i])
    BY <1>2, FrameIs
  <2>2. got.head
    BY <2>1 DEF HeadTaken
  <2>3. PartsFit(method) /\ ArmsFit(method) /\ OrderFits(method)
    BY TablesAgree DEF Typed, Agree
  <2>4. /\ \A q \in DOMAIN Parts : Parts[q].arm \in PartArms(method)
        /\ DOMAIN Parts = 1 .. Len(Parts) /\ Len(Parts) \in Nat
    BY RequestIs DEF PartArms, Parts
  <2> HIDE DEF f, i, k, p
  <2>5. CASE handler.arms[Parts[p].arm].fold = "keyed"
    <3>1. handler.arms[f.arm].after = {} /\ handler.arms[f.arm].before = {}
      BY <2>1, <2>3, <2>5 DEF ArmsFit, handler, Parts
    <3> QED BY <2>1, <2>2, <2>5, <3>1 DEF Refused, f
  <2>6. CASE handler.arms[Parts[p].arm].fold # "keyed"
    <3>1. IdsDistinct
      <4>1. CASE method = "CompleteWithAttachments"
        <5>1. DOMAIN Parts = {1} /\ Parts[1].arm = "attachment"
          BY <4>1 DEF Parts, MethodTable, CompleteWithAttachments, Request, Many, Part
        <5>2. handler.arms.attachment.fold = "keyed"
          BY <4>1 DEF handler, Fake!HandlerTable, Fake!CompleteUpload, Fake!Handler, Fake!Arm
        <5> QED BY <2>1, <2>6, <5>1, <5>2
      <4> QED BY <4>1 DEF IdsDistinct
    <3>2. ASSUME NEW a \in handler.arms[f.arm].after
          PROVE  Sent(handler, got, a)
      <4>1. /\ ~handler.bytes
            /\ \E q \in 1 .. p - 1 :
                 /\ Parts[q].arm = a
                 /\ \/ Parts[q].least = 1
                    \/ method = "GenerateVideo" /\ a = "first_frame" /\ Parts[p].arm = "last_frame"
        BY <2>1, PartsAgree DEF Typed
      <4>2. PICK q \in 1 .. p - 1 :
              /\ Parts[q].arm = a
              /\ \/ Parts[q].least = 1
                 \/ method = "GenerateVideo" /\ a = "first_frame" /\ Parts[p].arm = "last_frame"
        BY <4>1
      <4>3. q \in DOMAIN Parts /\ q + 1 < taken.section
        BY <2>1, <2>4, <4>2
      <4>4. Len(GivenFor(q)) >= 1
        <5>1. CASE Parts[q].least = 1
          BY <4>3, <5>1, RequestIs
        <5>2. CASE method = "GenerateVideo" /\ a = "first_frame" /\ Parts[p].arm = "last_frame"
          <6>1. LastRequiresFirst(ask)
            BY <5>2 DEF Passes
          <6>2. GivenFor(p) = ask.files.last_frame /\ GivenFor(q) = ask.files.first_frame
            BY <4>2, <5>2 DEF GivenFor
          <6>3. GivenFor(p) # <<>>
            <7>1. Len(GivenFor(p)) # 0
              BY <2>1, RequestIs
            <7> QED BY <7>1
          <6>4. GivenFor(q) # <<>>
            BY <6>1, <6>2, <6>3 DEF LastRequiresFirst
          <6> QED BY <4>3, <6>4, RequestIs, EmptySeq
        <5> QED BY <4>2, <5>1, <5>2
      <4>5. Reached(request, taken, q + 1) = Spot(Len(GivenFor(q)) + 1, 1)
        <5>1. Len(request[q + 1]) = Len(GivenFor(q)) /\ q + 1 \in Nat /\ taken.section \in Nat
          BY <4>3, RequestIs DEF IsPlace
        <5> QED BY <4>3, <5>1 DEF Reached
      <4>6. DOMAIN got.files[a] = 1 .. Len(GivenFor(q))
        BY <3>1, <4>2, <4>3, <4>5, ArrivedOfPart
      <4>7. got.files[a] # <<>>
        <5>1. 1 \in DOMAIN got.files[a]
          BY <4>3, <4>4, <4>6, RequestIs
        <5> QED BY <5>1
      <4> QED BY <4>1, <4>7 DEF Sent
    <3>3. ASSUME NEW a \in handler.arms[f.arm].before
          PROVE  ~Sent(handler, got, a)
      <4>1. a \in DOMAIN handler.arms /\ \A q \in DOMAIN Parts : Parts[q].arm = a => p < q
        BY <2>1, PartsAgree DEF Typed
      <4>2. got.files[a] = <<>>
        <5>1. CASE a \in PartArms(method)
          <6>1. PICK q \in DOMAIN Parts : Parts[q].arm = a
            BY <5>1 DEF PartArms, Parts
          <6>2. taken.section < q + 1
            BY <2>1, <2>4, <4>1, <6>1
          <6> QED BY <3>1, <6>1, <6>2, ArrivedOfPart
        <5>2. CASE a \notin PartArms(method)
          BY <4>1, <5>2 DEF PartsTaken
        <5> QED BY <5>1, <5>2
      <4> QED BY <4>2 DEF Sent
    <3>4. ~(/\ handler.arms[f.arm].fold = "byId"
            /\ FileIndex("byId", got.files[f.arm], f) > Len(got.files[f.arm])
            /\ ~StartsAsset(got, f))
      <4> SUFFICES ASSUME handler.arms[f.arm].fold = "byId",
                          FileIndex("byId", got.files[f.arm], f) > Len(got.files[f.arm])
                   PROVE  StartsAsset(got, f)
        OBVIOUS
      <4>9. got.files[f.arm] = Arrived(Parts[p], GivenFor(p), Spot(i, k))
        <5>1. Reached(request, taken, p + 1) = Spot(i, k)
          BY <2>1 DEF Reached, IsPlace, i, k
        <5> QED BY <2>1, <3>1, <5>1 DEF PartsTaken
      <4>1. i > Len(Arrived(Parts[p], GivenFor(p), Spot(i, k)))
        <5>1. FileIndex("byId", Arrived(Parts[p], GivenFor(p), Spot(i, k)), f) = i
          BY <2>1, <3>1, InItsPlace
        <5> QED BY <4>9, <5>1
      <4>2. /\ f.name[2] \in ask.ids \ {NoName}
            /\ \A j \in DOMAIN got.files[f.arm] : got.files[f.arm][j].name # f.name
        BY <2>1, <3>1, <4>9, <4>1, BeginsAsset
      <4>3. Parts[p].arm = "asset" /\ handler.head
        BY <2>1, <3>1, NamesDistinct
      <4> QED BY <2>1, <2>2, <4>2, <4>3 DEF StartsAsset, HeadTaken
    <3> QED BY <2>1, <2>2, <3>2, <3>3, <3>4 DEF Refused, f
  <2> QED BY <2>5, <2>6
<1> QED BY <1>1, <1>2

\* One more frame: the handler has what was sent up to there, and it was told of the
\* last chunk when the request is at its end.
LEMMA TakeKeeps ==
  ASSUME Typed, Phases, Unanswered, HeadTaken, PartsTaken, Passes(method, ask),
         IsPlace(request, taken), ~AtEnd(request, taken),
         UNCHANGED <<method, ask>>, taken' = After(request, taken),
         got' = Take(handler, got, FrameAt(method, ask, taken))
  PROVE  HeadTaken' /\ PartsTaken'
<1> DEFINE f == FrameAt(method, ask, taken)
           p == taken.section - 1
           i == taken.item
           k == taken.chunk
<1>1. /\ request' = request /\ handler' = handler /\ Parts' = Parts
      /\ IdsDistinct' = IdsDistinct /\ PartArms(method') = PartArms(method)
      /\ \A q : GivenFor(q)' = GivenFor(q)
  BY DEF request, handler, Parts, IdsDistinct, GivenFor
<1>2. /\ IsShape(request) /\ Len(request) = Len(Parts) + 1 /\ Len(Parts) \in Nat
      /\ DOMAIN Parts = 1 .. Len(Parts) /\ handler.head \in BOOLEAN
      /\ \A q \in DOMAIN Parts : q + 1 \in 1 .. Len(request)
  BY RequestIs
<1>3. /\ IsPlace(request, taken') /\ Precedes(taken, taken')
      /\ \A s \in 1 .. Len(request) :
           Reached(request, taken', s) =
             IF s = taken.section THEN Advanced(request[s], taken) ELSE Reached(request, taken, s)
  BY <1>2, AfterReached, AfterIsLater
<1>4. /\ taken.section \in 1 .. Len(request) /\ taken'.section \in Nat
      /\ taken.section <= taken'.section
  BY <1>2, <1>3 DEF IsPlace, AtEnd, Precedes
<1>5. /\ got = [head |-> got.head, alternative |-> got.alternative, ids |-> got.ids,
                last |-> got.last, files |-> got.files]
      /\ got.head \in BOOLEAN /\ got.last \in BOOLEAN
      /\ got.files = [a \in DOMAIN handler.arms |-> got.files[a]]
  BY DEF HeadTaken, PartsTaken
<1>6. handler.last = MethodTable[method].last /\ ArmsFit(method) /\ PartsFit(method)
  BY TablesAgree DEF Typed, Agree, ArmsFit, handler
<1>7. CASE taken.section = 1
  <2>1. f.arm = "head" /\ handler.head
    <3>1. f.arm = "head"
      BY <1>7 DEF FrameAt, HeadFrame
    <3>2. handler.head \/ taken.section > 1
      BY FrameIs
    <3> QED BY <1>7, <3>1, <3>2
  <2>2. got' = [head |-> TRUE, alternative |-> ask.alternative, ids |-> ask.ids,
                last |-> got.last, files |-> got.files]
    BY <1>5, <2>1 DEF Take
  <2>3. \A q \in DOMAIN Parts : Reached(request, taken', q + 1) = Reached(request, taken, q + 1)
    BY <1>2, <1>3, <1>7
  <2>4. PartsTaken'
    BY <1>1, <2>2, <2>3 DEF PartsTaken
  <2>5. taken'.section > 1
    <3>1. taken.item = 1 /\ taken.chunk = 1 /\ Len(request[1]) = 1 /\ request[1][1] = 1
      <4>1. request[1] = <<1>>
        BY <2>1, RequestIs
      <4>2. Len(<<1>>) = 1 /\ <<1>>[1] = 1
        OBVIOUS
      <4>3. taken.item \in 1 .. 1
        BY <1>2, <1>7, <4>1, <4>2 DEF IsPlace, AtEnd
      <4>4. taken.item = 1
        BY <4>3
      <4>5. taken.chunk \in 1 .. 1
        BY <1>2, <1>7, <4>1, <4>2, <4>4 DEF IsPlace, AtEnd
      <4> QED BY <4>1, <4>2, <4>4, <4>5
    <3>2. taken' = From(request, 2)
      BY <1>7, <3>1 DEF After
    <3>3. 2 \in 1 .. Len(request) + 1
      BY <1>2
    <3>4. NextSection(request, 2) \in 2 .. Len(request) + 1
      BY <1>2, <3>3, NextSectionIs
    <3> QED BY <1>2, <3>2, <3>4 DEF From
  <2>6. handler.last => ~AtEnd(request, taken')
    <3> SUFFICES ASSUME handler.last, AtEnd(request, taken') PROVE FALSE
      OBVIOUS
    <3>1. 1 \in DOMAIN Parts /\ Parts[1].least = 1
      BY PartsAgree DEF Typed
    <3>2. Len(GivenFor(1)) >= 1 /\ Len(request[2]) = Len(GivenFor(1)) /\ Len(GivenFor(1)) \in Nat
      BY <3>1, RequestIs
    <3>3. Reached(request, taken', 2) = Spot(Len(request[2]) + 1, 1)
      <4>1. 2 \in 1 .. Len(request)
        BY <1>2, <3>1
      <4> QED BY <1>2, <1>3, <4>1, EndReached
    <3>4. Reached(request, taken', 2) = Spot(1, 1)
      <4>1. Reached(request, taken', 2) = Reached(request, taken, 2)
        BY <2>3, <3>1
      <4> QED BY <1>7, <4>1 DEF Reached
    <3> QED BY <3>2, <3>3, <3>4 DEF Spot
  <2> QED BY <1>1, <1>5, <2>1, <2>2, <2>4, <2>5, <2>6 DEF HeadTaken
<1>8. CASE taken.section # 1
  <2>1. /\ taken.section > 1 /\ p \in DOMAIN Parts /\ taken.section = p + 1
        /\ i \in 1 .. Len(GivenFor(p)) /\ k \in 1 .. FramesIn(GivenFor(p)[i].chunks)
        /\ k \in Nat \ {0}
        /\ f.arm = Parts[p].arm /\ f.arm # "head"
        /\ f.name = WireName(Parts[p], i, GivenFor(p)[i])
        /\ f.data = IF GivenFor(p)[i].chunks = 0 THEN <<>> ELSE << <<i, k>> >>
        /\ f.last = SaysLast(method, ask, taken)
    BY <1>8, FrameIs
  <2> DEFINE old == got.files[f.arm]
             new == AppendChunk(old, FileIndex(handler.arms[f.arm].fold, old, f), f)
             r == IF k < FramesIn(GivenFor(p)[i].chunks) THEN Spot(i, k + 1) ELSE Spot(i + 1, 1)
  <2> HIDE DEF f, i, k, p
  <2>2. got' = [head |-> got.head, alternative |-> got.alternative, ids |-> got.ids,
                last |-> got.last \/ f.last, files |-> [got.files EXCEPT ![f.arm] = new]]
    <3>1. got' = [got EXCEPT !.last = @ \/ f.last, !.files[f.arm] = new]
      BY <2>1 DEF Take, f
    <3> HIDE DEF new
    <3> QED BY <1>5, <3>1
  <2>3. /\ f.arm \in DOMAIN handler.arms /\ f.arm \in PartArms(method)
        /\ \A q \in DOMAIN Parts : Parts[q].arm = f.arm => q = p
        /\ \A q \in DOMAIN Parts : Parts[q].arm \in DOMAIN handler.arms
    <3>1. \A q \in DOMAIN Parts : Parts[q].arm \in PartArms(method)
      BY DEF PartArms, Parts
    <3> QED BY <2>1, <3>1, PartsAgree DEF Typed
  <2>4. IdsDistinct => new = Arrived(Parts[p], GivenFor(p), r)
    <3> SUFFICES ASSUME IdsDistinct PROVE new = Arrived(Parts[p], GivenFor(p), r)
      OBVIOUS
    <3> HIDE DEF new, r
    <3>1. Reached(request, taken, p + 1) = Spot(i, k)
      BY <2>1 DEF Reached, IsPlace, i, k
    <3>2. old = Arrived(Parts[p], GivenFor(p), Spot(i, k))
      BY <2>1, <3>1 DEF PartsTaken
    <3>3. FileIndex(handler.arms[f.arm].fold, old, f) = i
      <4>1. FileIndex(handler.arms[Parts[p].arm].fold,
                      Arrived(Parts[p], GivenFor(p), Spot(i, k)), f) = i
        <5>1. /\ p \in DOMAIN Parts /\ i \in 1 .. Len(GivenFor(p)) /\ k \in Nat \ {0}
              /\ f.name = WireName(Parts[p], i, GivenFor(p)[i])
          BY <2>1
        <5> QED BY <5>1, InItsPlace
      <4> QED BY <2>1, <3>2, <4>1
    <3>4. GivenFor(p) \in Seq(FileGiven)
      BY <2>1, RequestIs
    <3> QED BY <2>1, <3>2, <3>3, <3>4, ArrivedNext DEF new, r
  <2>5. Reached(request, taken', p + 1) = r
    <3>1. Reached(request, taken', p + 1) = Advanced(request[p + 1], taken)
      BY <1>2, <1>3, <2>1
    <3>2. request[p + 1][i] = FramesIn(GivenFor(p)[i].chunks)
      BY <2>1, RequestIs
    <3> QED BY <3>1, <3>2 DEF Advanced, i, k
  <2> HIDE DEF old, new, r
  <2>6. /\ got'.files = [a \in DOMAIN handler.arms |-> IF a = f.arm THEN new ELSE got.files[a]]
        /\ got'.last = (got.last \/ f.last) /\ got'.head = got.head
        /\ got'.alternative = got.alternative /\ got'.ids = got.ids
        /\ got' = [head |-> got'.head, alternative |-> got'.alternative, ids |-> got'.ids,
                   last |-> got'.last, files |-> got'.files]
    BY <1>5, <2>2, <2>3
  <2>7. PartsTaken'
    <3>1. got'.files = [a \in DOMAIN handler'.arms |-> got'.files[a]]
      BY <1>1, <2>6
    <3>2. \A a \in DOMAIN handler'.arms \ PartArms(method') : got'.files[a] = <<>>
      BY <1>1, <2>3, <2>6 DEF PartsTaken
    <3>3. ASSUME IdsDistinct', NEW q \in DOMAIN Parts
          PROVE  got'.files[Parts[q].arm] =
                   Arrived(Parts[q], GivenFor(q), Reached(request, taken', q + 1))
      <4>1. CASE q = p
        BY <1>1, <2>1, <2>3, <2>4, <2>5, <2>6, <3>3, <4>1
      <4>2. CASE q # p
        <5>1. Reached(request, taken', q + 1) = Reached(request, taken, q + 1)
          BY <1>2, <1>3, <2>1, <4>2
        <5>2. got'.files[Parts[q].arm] = got.files[Parts[q].arm]
          BY <2>3, <2>6, <4>2
        <5> QED BY <1>1, <3>3, <5>1, <5>2 DEF PartsTaken
      <4> QED BY <4>1, <4>2
    <3> QED BY <1>1, <3>1, <3>2, <3>3 DEF PartsTaken
  <2>8. got.head /\ taken'.section > 1
    BY <1>4, <2>1 DEF HeadTaken
  <2>9. f.last \in BOOLEAN /\ (handler.last /\ AtEnd(request, taken') => f.last)
    <3>1. f.last <=> handler.last /\ AtEnd(request, taken')
      BY <1>6, <2>1 DEF SaysLast, request
    <3>2. SaysLast(method, ask, taken) \in BOOLEAN
      BY DEF SaysLast, AtEnd
    <3> QED BY <2>1, <3>1, <3>2
  <2>10. /\ got'.head \in BOOLEAN /\ got'.last \in BOOLEAN
         /\ handler.last /\ AtEnd(request, taken') => got'.last
    BY <1>5, <2>6, <2>9
  <2>11. /\ got'.head <=> (~handler.head \/ taken'.section > 1)
         /\ handler.head /\ got'.head => got'.alternative = ask.alternative /\ got'.ids = ask.ids
    BY <2>6, <2>8 DEF HeadTaken
  <2> QED BY <1>1, <2>6, <2>7, <2>10, <2>11 DEF HeadTaken
<1> QED BY <1>7, <1>8

\* At the end of the request every part is there, whole.
LEMMA AllArrived ==
  ASSUME Typed, Phases, Unanswered, PartsTaken, IdsDistinct,
         IsPlace(request, taken), AtEnd(request, taken), NEW p \in DOMAIN Parts
  PROVE  /\ DOMAIN got.files[Parts[p].arm] = 1 .. Len(GivenFor(p))
         /\ \A i \in 1 .. Len(GivenFor(p)) :
              /\ got.files[Parts[p].arm][i].name = WireName(Parts[p], i, GivenFor(p)[i])
              /\ got.files[Parts[p].arm][i].data = Whole(i, GivenFor(p)[i].chunks)
<1>1. Reached(request, taken, p + 1) = Spot(Len(GivenFor(p)) + 1, 1)
  <2>1. /\ IsShape(request) /\ p + 1 \in 1 .. Len(request)
        /\ Len(request[p + 1]) = Len(GivenFor(p))
    BY RequestIs
  <2> QED BY <2>1, EndReached
<1> QED BY <1>1, ArrivedOfPart

\* What arrives at the end is what the caller passed.
LEMMA AsGiven ==
  ASSUME Typed, Phases, Unanswered, PartsTaken, IdsDistinct,
         IsPlace(request, taken), AtEnd(request, taken), NEW a \in PartArms(method)
  PROVE  [i \in DOMAIN got.files[a] |-> got.files[a][i].data] =
           [i \in DOMAIN ask.files[a] |-> [k \in 1 .. ask.files[a][i].chunks |-> <<i, k>>]]
<1>1. PICK p \in DOMAIN Parts : Parts[p].arm = a
  BY DEF PartArms, Parts
<1>2. ask.files[a] = GivenFor(p) /\ DOMAIN GivenFor(p) = 1 .. Len(GivenFor(p))
  BY <1>1, RequestIs DEF GivenFor
<1>3. /\ DOMAIN got.files[a] = 1 .. Len(GivenFor(p))
      /\ \A i \in 1 .. Len(GivenFor(p)) : got.files[a][i].data = Whole(i, GivenFor(p)[i].chunks)
  <2>1. \A i \in 1 .. Len(GivenFor(p)) :
          /\ got.files[a][i].name = WireName(Parts[p], i, GivenFor(p)[i])
          /\ got.files[a][i].data = Whole(i, GivenFor(p)[i].chunks)
    BY <1>1, AllArrived
  <2>2. DOMAIN got.files[a] = 1 .. Len(GivenFor(p))
    BY <1>1, AllArrived
  <2> QED BY <2>1, <2>2
<1> QED BY <1>2, <1>3 DEF Whole

\* The handler takes the whole request for complete, unless a file it needs the data
\* of is empty.
LEMMA FoundComplete ==
  ASSUME Typed, Phases, Unanswered, HeadTaken, PartsTaken, Passes(method, ask),
         IsPlace(request, taken), AtEnd(request, taken), ~Complete(handler, got)
  PROVE  \/ \E a \in (handler.full \cup handler.either) \cap PartArms(method) :
              \E i \in DOMAIN ask.files[a] : ask.files[a][i].chunks = 0
         \/ "points" \in PartArms(method) /\ ask.files.points = <<>>
<1> DEFINE empty == \E a \in (handler.full \cup handler.either) \cap PartArms(method) :
                      \E i \in DOMAIN ask.files[a] : ask.files[a][i].chunks = 0
           unasked == "points" \in PartArms(method) /\ ask.files.points = <<>>
<1> SUFFICES ASSUME ~empty, ~unasked PROVE FALSE
  OBVIOUS
<1>1. ArmsFit(method) /\ EndFits(method)
  BY TablesAgree DEF Typed, Agree
<1>2. got.head
  <2>1. taken.section = Len(Parts) + 2 /\ Len(Parts) \in 0 .. 3
    <3>1. Len(request) = Len(Parts) + 1 /\ Len(Parts) \in 0 .. 3
      BY RequestIs
    <3> QED BY <3>1 DEF IsPlace, AtEnd
  <2>2. taken.section > 1
    BY <2>1
  <2> QED BY <2>2 DEF HeadTaken
<1>3. handler.last => got.last
  BY DEF HeadTaken
<1>4. CASE method = "CompleteWithAttachments"
  <2>1. handler.needs = {} /\ handler.full = {} /\ handler.either = {} /\ ~handler.ids
    BY <1>1, <1>4 DEF EndFits, handler
  <2> QED BY <1>2, <1>3, <2>1 DEF Complete
<1>5. CASE method # "CompleteWithAttachments"
  <2>1. IdsDistinct
    BY <1>5 DEF IdsDistinct
  <2>2. ASSUME NEW p \in DOMAIN Parts
        PROVE  /\ DOMAIN got.files[Parts[p].arm] = 1 .. Len(GivenFor(p))
               /\ DOMAIN GivenFor(p) = 1 .. Len(GivenFor(p)) /\ Len(GivenFor(p)) \in Nat
               /\ Len(GivenFor(p)) >= Parts[p].least
               /\ GivenFor(p) = ask.files[Parts[p].arm]
               /\ \A i \in 1 .. Len(GivenFor(p)) :
                    /\ GivenFor(p)[i].chunks \in Nat
                    /\ got.files[Parts[p].arm][i].name = WireName(Parts[p], i, GivenFor(p)[i])
                    /\ GivenFor(p)[i].chunks # 0 => got.files[Parts[p].arm][i].data # <<>>
    <3>1. /\ DOMAIN got.files[Parts[p].arm] = 1 .. Len(GivenFor(p))
          /\ \A i \in 1 .. Len(GivenFor(p)) :
               /\ got.files[Parts[p].arm][i].name = WireName(Parts[p], i, GivenFor(p)[i])
               /\ got.files[Parts[p].arm][i].data = Whole(i, GivenFor(p)[i].chunks)
      BY <2>1, AllArrived
    <3>2. /\ DOMAIN GivenFor(p) = 1 .. Len(GivenFor(p)) /\ Len(GivenFor(p)) \in Nat
          /\ Len(GivenFor(p)) >= Parts[p].least /\ GivenFor(p) = ask.files[Parts[p].arm]
          /\ GivenFor(p) \in Seq(FileGiven)
      BY RequestIs DEF GivenFor
    <3>3. \A i \in 1 .. Len(GivenFor(p)) : GivenFor(p)[i].chunks \in Nat
      <4>1. \A i \in 1 .. Len(GivenFor(p)) : GivenFor(p)[i] \in FileGiven
        BY <3>2, ElementOfSeq
      <4> QED BY <4>1 DEF FileGiven
    <3>4. \A i \in Nat, n \in Nat : n # 0 => Whole(i, n) # <<>>
      <4> SUFFICES ASSUME NEW i \in Nat, NEW n \in Nat, n # 0 PROVE Whole(i, n) # <<>>
        OBVIOUS
      <4>1. DOMAIN Whole(i, n) = 1 .. n /\ 1 \in 1 .. n
        BY DEF Whole
      <4>2. DOMAIN <<>> = {}
        OBVIOUS
      <4> QED BY <4>1, <4>2
    <3>5. \A i \in 1 .. Len(GivenFor(p)) : i \in Nat
      BY <3>2
    <3>6. \A i \in 1 .. Len(GivenFor(p)) :
            /\ got.files[Parts[p].arm][i].name = WireName(Parts[p], i, GivenFor(p)[i])
            /\ got.files[Parts[p].arm][i].data = Whole(i, GivenFor(p)[i].chunks)
      BY <3>1
    <3>7. \A i \in 1 .. Len(GivenFor(p)) :
            GivenFor(p)[i].chunks # 0 => got.files[Parts[p].arm][i].data # <<>>
      BY <3>3, <3>4, <3>5, <3>6
    <3> QED BY <3>1, <3>2, <3>3, <3>6, <3>7
  <2>3. ASSUME NEW p \in DOMAIN Parts, Parts[p].least = 1 \/ GivenFor(p) # <<>>
        PROVE  1 \in 1 .. Len(GivenFor(p)) /\ got.files[Parts[p].arm] # <<>>
    <3>1. Len(GivenFor(p)) >= 1
      <4>1. GivenFor(p) \in Seq(FileGiven)
        BY RequestIs
      <4> QED BY <2>2, <2>3, <4>1, EmptySeq
    <3>2. 1 \in 1 .. Len(GivenFor(p)) /\ 1 \in DOMAIN got.files[Parts[p].arm]
      BY <2>2, <3>1
    <3> QED BY <3>2
  <2>4. \A p \in DOMAIN Parts : Parts[p].arm \in PartArms(method)
    BY DEF PartArms, Parts
  <2>5. ASSUME NEW p \in DOMAIN Parts, Parts[p].arm \in handler.full \cup handler.either,
               NEW i \in 1 .. Len(GivenFor(p))
        PROVE  got.files[Parts[p].arm][i].data # <<>>
    BY <2>2, <2>4, <2>5
  <2>6. \A a \in handler.needs : got.files[a] # <<>>
    <3> SUFFICES ASSUME NEW a \in handler.needs PROVE got.files[a] # <<>>
      OBVIOUS
    <3>1. PICK p \in DOMAIN Parts : Parts[p].arm = a /\ (Parts[p].least = 1 \/ a = "points")
      BY <1>1 DEF EndFits, handler, Parts
    <3>2. a = "points" => GivenFor(p) # <<>>
      BY <2>4, <3>1 DEF GivenFor
    <3> QED BY <2>3, <3>1, <3>2
  <2>7. \A a \in handler.full : \A i \in DOMAIN got.files[a] : got.files[a][i].data # <<>>
    <3> SUFFICES ASSUME NEW a \in handler.full, NEW i \in DOMAIN got.files[a]
                 PROVE  got.files[a][i].data # <<>>
      OBVIOUS
    <3>1. PICK p \in DOMAIN Parts : Parts[p].arm = a
      BY <1>1 DEF EndFits, handler, Parts, PartArms
    <3> QED BY <2>2, <2>5, <3>1
  <2>8. ASSUME NEW a \in handler.either
        PROVE  /\ got.alternative \/ Sent(handler, got, a)
               /\ handler.bytes /\ got.alternative => ~Sent(handler, got, a)
    <3>1. got.alternative = ask.alternative /\ ask.alternative \in MethodTable[method].alternative
      <4>1. handler.head
        BY <1>1 DEF EndFits, handler
      <4>2. ask \in Asks(method)
        BY DEF Phases
      <4>3. ask.alternative \in MethodTable[method].alternative
        BY <4>2 DEF Asks
      <4> QED BY <1>2, <4>1, <4>3 DEF HeadTaken
    <3>2. ASSUME NEW p \in DOMAIN Parts, Parts[p].arm = a,
                 Parts[p].least = 1 \/ GivenFor(p) # <<>>
          PROVE  Sent(handler, got, a)
      <4>1. got.files[a] # <<>> /\ 1 \in DOMAIN got.files[a] /\ got.files[a][1].data # <<>>
        BY <2>2, <2>3, <2>5, <3>2
      <4> QED BY <4>1 DEF Sent
    <3>3. \/ /\ MethodTable[method].alternative = {FALSE}
             /\ \E p \in DOMAIN Parts : Parts[p].arm = a /\ Parts[p].least = 1
          \/ /\ MethodTable[method].alternative = {TRUE}
             /\ a \notin PartArms(method) /\ a \in DOMAIN handler.arms
          \/ method = "Save" /\ a = "sample" /\ a \in PartArms(method) /\ ~handler.bytes
      BY <1>1 DEF EndFits, handler, Parts
    <3>4. CASE /\ MethodTable[method].alternative = {FALSE}
               /\ \E p \in DOMAIN Parts : Parts[p].arm = a /\ Parts[p].least = 1
      BY <3>1, <3>2, <3>4
    <3>5. CASE /\ MethodTable[method].alternative = {TRUE}
               /\ a \notin PartArms(method) /\ a \in DOMAIN handler.arms
      <4>1. got.files[a] = <<>>
        BY <3>5 DEF PartsTaken
      <4>2. ~Sent(handler, got, a)
        BY <4>1 DEF Sent
      <4>3. got.alternative = TRUE
        BY <3>1, <3>5
      <4> QED BY <4>2, <4>3
    <3>6. CASE method = "Save" /\ a = "sample" /\ a \in PartArms(method) /\ ~handler.bytes
      <4>1. ask.alternative \/ ask.files.sample # <<>>
        BY <3>6 DEF Passes, HandleOrSample
      <4>2. PICK p \in DOMAIN Parts : Parts[p].arm = a
        BY <3>6 DEF PartArms, Parts
      <4>3. GivenFor(p) = ask.files.sample
        BY <3>6, <4>2 DEF GivenFor
      <4> QED BY <3>1, <3>2, <3>6, <4>1, <4>2, <4>3
    <3> QED BY <3>3, <3>4, <3>5, <3>6
  <2>9. handler.ids =>
          got.ids \subseteq {got.files.asset[i].name[2] : i \in DOMAIN got.files.asset}
    <3> SUFFICES ASSUME handler.ids, NEW id \in got.ids
                 PROVE  \E i \in DOMAIN got.files.asset : got.files.asset[i].name[2] = id
      OBVIOUS
    <3>1. method = "Render" /\ "asset" \in PartArms(method) /\ handler.head
      BY <1>1 DEF EndFits, handler
    <3>2. got.ids = ask.ids /\ GivenIds(ask.files.asset) = ask.ids
      BY <1>2, <3>1 DEF HeadTaken, Passes, CheckAssets
    <3>3. PICK p \in DOMAIN Parts : Parts[p].arm = "asset"
      BY <3>1 DEF PartArms, Parts
    <3>4. PICK i \in DOMAIN ask.files.asset : ask.files.asset[i].name = id
      BY <3>2 DEF GivenIds
    <3>5. i \in DOMAIN got.files.asset
      BY <2>2, <3>3, <3>4
    <3>6. got.files.asset[i].name = WireName(Parts[p], i, ask.files.asset[i])
      BY <2>2, <3>3, <3>4
    <3>7. got.files.asset[i].name[2] = id
      BY <3>4, <3>6 DEF WireName
    <3> QED BY <3>5, <3>7
  <2> QED BY <1>2, <1>3, <2>6, <2>7, <2>8, <2>9 DEF Complete
<1> QED BY <1>4, <1>5

LEMMA RequestInit == Init => RequestInv
<1> SUFFICES ASSUME Init PROVE RequestInv
  OBVIOUS
<1>1. Typed /\ Phases /\ Unanswered
  BY AnswerInit DEF AnswerInv, Init, Unanswered
<1>2. /\ IsShape(request) /\ Len(request) = Len(Parts) + 1 /\ Len(Parts) \in Nat
      /\ DOMAIN Parts = 1 .. Len(Parts) /\ handler.head \in BOOLEAN
      /\ request[1] = IF handler.head THEN <<1>> ELSE <<>>
      /\ \A p \in DOMAIN Parts : p + 1 \in 1 .. Len(request) /\ GivenFor(p) \in Seq(FileGiven)
  BY <1>1, RequestIs
<1>3. /\ taken = Start(request) /\ sent = Start(request) /\ got = Received(handler)
      /\ ~closed /\ outcome = "new" /\ server = "receiving" /\ status = "open"
  BY DEF Init
<1>4. /\ IsPlace(request, taken)
      /\ \A p \in DOMAIN Parts : Reached(request, taken, p + 1) = Spot(1, 1)
  BY <1>2, <1>3, StartReached
<1>5. TakenBehind
  BY <1>3, <1>4 DEF TakenBehind
<1>6. /\ got = [head |-> got.head, alternative |-> got.alternative, ids |-> got.ids,
                last |-> got.last, files |-> got.files]
      /\ got.head = ~handler.head /\ got.last = FALSE
      /\ got.files = [a \in DOMAIN handler.arms |-> <<>>]
  BY <1>3 DEF Received
<1>7. ArmsFit(method)
  BY <1>1, TablesAgree DEF Typed, Agree
<1>8. PartsTaken
  <2>1. \A p \in DOMAIN Parts : Parts[p].arm \in DOMAIN handler.arms
    BY <1>7 DEF ArmsFit, handler, Parts
  <2>2. \A p \in DOMAIN Parts :
          got.files[Parts[p].arm] = Arrived(Parts[p], GivenFor(p), Reached(request, taken, p + 1))
    BY <1>2, <1>4, <1>6, <2>1, ArrivedEnds
  <2> QED BY <1>6, <2>2 DEF PartsTaken
<1>9. taken = [section |-> NextSection(request, 1), item |-> 1, chunk |-> 1]
  BY <1>3 DEF Start, From
<1>10. /\ NextSection(request, 1) \in 1 .. Len(request) + 1
       /\ \A empty \in 1 .. NextSection(request, 1) - 1 : request[empty] = <<>>
  <2>1. 1 \in 1 .. Len(request) + 1
    BY <1>2
  <2> QED BY <1>2, <2>1, NextSectionIs
<1>11. handler.head => taken.section = 1
  <2>1. <<1>> # <<>>
    OBVIOUS
  <2>2. handler.head => NextSection(request, 1) = 1
    <3> SUFFICES ASSUME handler.head, NextSection(request, 1) # 1 PROVE FALSE
      OBVIOUS
    <3>1. 1 \in 1 .. NextSection(request, 1) - 1
      BY <1>2, <1>10
    <3>2. request[1] = <<>>
      BY <1>10, <3>1
    <3>3. request[1] = <<1>>
      BY <1>2
    <3> QED BY <2>1, <3>2, <3>3
  <2> QED BY <1>9, <2>2
<1>12. ~(handler.last /\ AtEnd(request, taken))
  <2> SUFFICES ASSUME handler.last, AtEnd(request, taken) PROVE FALSE
    OBVIOUS
  <2>1. 1 \in DOMAIN Parts /\ Parts[1].least = 1
    BY <1>1, PartsAgree DEF Typed
  <2>2. Reached(request, taken, 2) = Spot(Len(request[2]) + 1, 1)
    BY <1>2, <1>4, <2>1, EndReached
  <2>3. Len(request[2]) >= 1 /\ Len(request[2]) \in Nat
    BY <1>1, <2>1, RequestIs
  <2>4. Reached(request, taken, 2) = Spot(1, 1)
    BY <1>4, <2>1
  <2> QED BY <2>2, <2>3, <2>4 DEF Spot
<1>13. HeadTaken
  <2>1. got.head \in BOOLEAN /\ got.last \in BOOLEAN
    BY <1>2, <1>6
  <2>2. got.head <=> (~handler.head \/ taken.section > 1)
    <3>1. CASE handler.head
      <4>1. ~(taken.section > 1)
        BY <1>11, <3>1
      <4>2. ~got.head
        BY <1>6, <3>1
      <4> QED BY <3>1, <4>1, <4>2
    <3>2. CASE ~handler.head
      <4>1. got.head
        BY <1>6, <3>2
      <4> QED BY <3>2, <4>1
    <3> QED BY <3>1, <3>2
  <2>3. ~(handler.head /\ got.head)
    <3>1. CASE handler.head
      BY <1>6, <3>1
    <3> QED BY <3>1
  <2> QED BY <1>6, <1>12, <2>1, <2>2, <2>3 DEF HeadTaken
<1>14. RequestArrivesAsMeant
  BY <1>3 DEF RequestArrivesAsMeant
<1> QED BY <1>3, <1>5, <1>8, <1>13, <1>14 DEF RequestInv

\* Every step keeps what is known of the request.
LEMMA RequestStep ==
  ASSUME AnswerInv, RequestInv, [Next]_vars
  PROVE  RequestInv'
<1>1. /\ Typed /\ Phases /\ TakenBehind /\ (Unanswered => HeadTaken /\ PartsTaken)
      /\ Unanswered /\ outcome # "new" => outcome = "refused" \/ Passes(method, ask)
      /\ RequestArrivesAsMeant
  BY DEF AnswerInv, RequestInv
<1>2. ASSUME UNCHANGED <<method, ask>>
      PROVE  /\ request' = request /\ handler' = handler /\ Parts' = Parts
             /\ IdsDistinct' = IdsDistinct /\ PartArms(method') = PartArms(method)
             /\ Passes(method', ask') = Passes(method, ask)
             /\ \A p : GivenFor(p)' = GivenFor(p)
  BY <1>2 DEF request, handler, Parts, IdsDistinct, GivenFor
<1>3. ASSUME UNCHANGED <<method, ask, taken, got>>
      PROVE  HeadTaken /\ PartsTaken => HeadTaken' /\ PartsTaken'
  <2>1. HeadTaken => HeadTaken'
    BY <1>2, <1>3 DEF HeadTaken
  <2>2. PartsTaken => PartsTaken'
    <3> SUFFICES ASSUME PartsTaken PROVE PartsTaken'
      OBVIOUS
    <3>1. IdsDistinct' =>
            \A p \in DOMAIN Parts' :
              got'.files[Parts'[p].arm] =
                Arrived(Parts'[p], GivenFor(p)', Reached(request', taken', p + 1))
      BY <1>2, <1>3 DEF PartsTaken
    <3>2. /\ got'.files = [a \in DOMAIN handler'.arms |-> got'.files[a]]
          /\ \A a \in DOMAIN handler'.arms \ PartArms(method') : got'.files[a] = <<>>
      BY <1>2, <1>3 DEF PartsTaken
    <3> QED BY <3>1, <3>2 DEF PartsTaken
  <2> QED BY <2>1, <2>2
<1>4. ASSUME UNCHANGED <<method, ask, got, server, status>>
      PROVE  RequestArrivesAsMeant'
  BY <1>1, <1>2, <1>4 DEF RequestArrivesAsMeant
<1>5. CASE Begin
  <2>1. /\ UNCHANGED <<method, ask, sent, closed, taken, got, server, status>>
        /\ (outcome' = "calling" /\ Passes(method, ask)) \/ outcome' = "refused"
    BY <1>5 DEF Begin, serverVars
  <2>2. Unanswered' = Unanswered
    BY <2>1 DEF Unanswered
  <2>3. TakenBehind'
    BY <1>1, <1>2, <2>1, <2>2 DEF TakenBehind
  <2> QED BY <1>1, <1>2, <1>3, <1>4, <2>1, <2>2, <2>3 DEF RequestInv
<1>6. CASE Send
  <2>1. /\ UNCHANGED <<method, ask, outcome, closed, taken, got, server, status>>
        /\ ~closed /\ ~AtEnd(request, sent) /\ sent' = After(request, sent)
    BY <1>6 DEF Send, Sending, serverVars
  <2>2. Unanswered' = Unanswered
    BY <2>1 DEF Unanswered
  <2>3. TakenBehind'
    <3> SUFFICES ASSUME Unanswered PROVE TakenBehind'
      BY <2>2 DEF TakenBehind
    <3>1. IsShape(request)
      BY <1>1, RequestIs
    <3>2. IsPlace(request, sent') /\ Precedes(sent, sent')
      BY <1>1, <2>1, <3>1, AfterReached, AfterIsLater DEF TakenBehind
    <3>3. Precedes(taken, sent')
      BY <1>1, <3>2, PrecedesTransitive DEF TakenBehind
    <3> QED BY <1>1, <1>2, <2>1, <2>2, <3>2, <3>3 DEF TakenBehind
  <2> QED BY <1>1, <1>2, <1>3, <1>4, <2>1, <2>2, <2>3 DEF RequestInv
<1>7. CASE HalfClose
  <2>1. /\ UNCHANGED <<method, ask, outcome, sent, taken, got, server, status>>
        /\ AtEnd(request, sent)
    BY <1>7 DEF HalfClose, serverVars
  <2>2. Unanswered' = Unanswered
    BY <2>1 DEF Unanswered
  <2>3. TakenBehind'
    BY <1>1, <1>2, <2>1, <2>2 DEF TakenBehind
  <2> QED BY <1>1, <1>2, <1>3, <1>4, <2>1, <2>2, <2>3 DEF RequestInv
<1>8. CASE Receive
  <2> DEFINE f == FrameAt(method, ask, taken)
  <2>1. /\ UNCHANGED <<method, ask, outcome, sent, closed>>
        /\ server = "receiving" /\ taken # sent /\ status = "open"
        /\ IF Refused(handler, got, f)
           THEN server' = "ended" /\ status' = "invalid" /\ UNCHANGED <<taken, got>>
           ELSE /\ got' = Take(handler, got, f) /\ taken' = After(request, taken)
                /\ UNCHANGED <<server, status>>
    BY <1>8 DEF Receive, clientVars
  <2>2. Unanswered /\ outcome \notin {"new", "refused"}
    BY <1>1, <2>1 DEF Unanswered, Phases
  <2>3. Passes(method, ask) /\ HeadTaken /\ PartsTaken
    BY <1>1, <2>2
  <2>4. /\ IsShape(request) /\ IsPlace(request, taken) /\ IsPlace(request, sent)
        /\ Precedes(taken, sent)
    BY <1>1, <2>1, <2>2, RequestIs DEF TakenBehind
  <2>5. ~AtEnd(request, taken) /\ (After(request, taken) = sent \/ Precedes(After(request, taken), sent))
    BY <2>4, AfterIsNext
  <2>6. ~Refused(handler, got, f)
    BY <1>1, <2>2, <2>3, <2>4, <2>5, NoneRefused
  <2> HIDE DEF f
  <2>7. /\ got' = Take(handler, got, f) /\ taken' = After(request, taken)
        /\ UNCHANGED <<server, status>>
    BY <2>1, <2>6
  <2>8. HeadTaken' /\ PartsTaken'
    BY <1>1, <2>1, <2>2, <2>3, <2>4, <2>5, <2>7, TakeKeeps DEF f
  <2>9. TakenBehind'
    <3>1. IsPlace(request, taken')
      BY <2>4, <2>5, <2>7, AfterReached
    <3> QED BY <1>1, <1>2, <2>1, <2>2, <2>4, <2>5, <2>7, <3>1 DEF TakenBehind, Unanswered
  <2>10. RequestArrivesAsMeant'
    BY <2>1, <2>7 DEF RequestArrivesAsMeant
  <2> QED BY <1>2, <2>1, <2>3, <2>8, <2>9, <2>10 DEF RequestInv
<1>9. CASE Drained
  <2>1. /\ UNCHANGED <<method, ask, outcome, sent, closed, taken, got>>
        /\ server = "receiving" /\ taken = sent /\ closed /\ status = "open"
        /\ IF Complete(handler, got)
           THEN server' = "accepted" /\ UNCHANGED status
           ELSE server' = "ended" /\ status' = "invalid"
    BY <1>9 DEF Drained, clientVars
  <2>2. Unanswered /\ outcome \notin {"new", "refused"}
    BY <1>1, <2>1 DEF Unanswered, Phases
  <2>3. Passes(method, ask) /\ HeadTaken /\ PartsTaken
    BY <1>1, <2>2
  <2>4. IsPlace(request, taken) /\ AtEnd(request, taken)
    BY <1>1, <2>1, <2>2 DEF TakenBehind
  <2>5. TakenBehind'
    BY <1>1, <1>2, <2>1, <2>2, <2>4 DEF TakenBehind
  <2>6. CASE Complete(handler, got)
    <3>1. server' = "accepted" /\ status' = "open"
      BY <2>1, <2>6
    <3>2. IdsDistinct =>
            \A a \in PartArms(method) :
              [i \in DOMAIN got.files[a] |-> got.files[a][i].data] =
                [i \in DOMAIN ask.files[a] |-> [k \in 1 .. ask.files[a][i].chunks |-> <<i, k>>]]
      BY <1>1, <2>2, <2>3, <2>4, AsGiven
    <3>3. RequestArrivesAsMeant'
      BY <1>2, <2>1, <3>1, <3>2 DEF RequestArrivesAsMeant
    <3> QED BY <1>2, <1>3, <2>1, <2>3, <2>5, <3>3 DEF RequestInv
  <2>7. CASE ~Complete(handler, got)
    <3>1. server' = "ended" /\ status' = "invalid"
      BY <2>1, <2>7
    <3>2. \/ \E a \in (handler.full \cup handler.either) \cap PartArms(method) :
               \E i \in DOMAIN ask.files[a] : ask.files[a][i].chunks = 0
          \/ "points" \in PartArms(method) /\ ask.files.points = <<>>
      BY <1>1, <2>2, <2>3, <2>4, <2>7, FoundComplete
    <3>3. RequestArrivesAsMeant'
      BY <1>2, <2>1, <3>1, <3>2 DEF RequestArrivesAsMeant
    <3>4. ~Unanswered'
      BY <3>1 DEF Unanswered
    <3> QED BY <2>5, <3>3, <3>4 DEF RequestInv
  <2> QED BY <2>6, <2>7
<1>10. CASE Respond \/ Answer \/ EndWhole \/ EndEarly \/ Fail
  <2>1. server' \in {"answering", "ended"} /\ status' # "invalid"
    BY <1>10 DEF Respond, Answer, EndWhole, EndEarly, Fail
  <2> QED BY <2>1 DEF RequestInv, TakenBehind, Unanswered, RequestArrivesAsMeant
<1>11. CASE SendSeesEnd \/ ReceiveAnswer \/ ReceiveEnd
  <2>1. UNCHANGED <<method, ask, got, server, status>>
    BY <1>11 DEF SendSeesEnd, ReceiveAnswer, ReceiveEnd, serverVars
  <2>2. ~Unanswered'
    BY <1>1, <1>11, <2>1 DEF SendSeesEnd, ReceiveAnswer, ReceiveEnd, Phases, Unanswered
  <2> QED BY <1>4, <2>1, <2>2 DEF RequestInv, TakenBehind
<1>12. CASE Done \/ UNCHANGED vars
  <2>1. UNCHANGED <<method, ask, outcome, sent, closed, taken, got, server, status>>
    BY <1>12 DEF Done, vars
  <2>2. Unanswered' = Unanswered
    BY <2>1 DEF Unanswered
  <2>3. TakenBehind'
    BY <1>1, <1>2, <2>1, <2>2 DEF TakenBehind
  <2> QED BY <1>1, <1>2, <1>3, <1>4, <2>1, <2>2, <2>3 DEF RequestInv
<1> QED BY <1>5, <1>6, <1>7, <1>8, <1>9, <1>10, <1>11, <1>12 DEF Next

\* A request that passed the local checks reaches the handler as the caller meant it,
\* whatever the names, the number and the sizes of its files, and is refused only for a
\* file that was left empty (RequestArrivesAsMeant): the tables of the client methods
\* and of the handlers agree on the frames of every one of them.
THEOREM RequestArrives == Spec => []RequestArrivesAsMeant
<1>1. Init => RequestInv
  BY RequestInit
<1>2. AnswerInv /\ RequestInv /\ [Next]_vars => RequestInv'
  BY RequestStep
<1>3. RequestInv => RequestArrivesAsMeant
  BY DEF RequestInv
<1> QED BY <1>1, <1>2, <1>3, Answering, PTL DEF Spec
=============================================================================

--------------------------- MODULE Pipeline_proofs ---------------------------
(***************************************************************************)
(* What the stores promise their readers, for every list of tables and set *)
(* of months, and any number of writes that fail and processes that are    *)
(* killed: first the bar store, for every use of it; then the command      *)
(* line, which uses the two stores as their specifications say, and leaves *)
(* what is current, for every source and configuration.                    *)
(***************************************************************************)
EXTENDS Pipeline, SequenceTheorems, WellFoundedInduction, TLAPS

Base == Head(Tables)

-----------------------------------------------------------------------------
(***************************************************************************)
(* The inductive invariant.                                                *)
(***************************************************************************)
Shape ==
  /\ source \in Sources /\ version \in 0 .. Len(source.content) /\ kills \in Nat
  /\ part = [file \in Files |-> part[file]] /\ tmp = [file \in Files |-> tmp[file]]

\* Where an ingestion is, and what is in the file that is about to take its place.
Progress ==
  /\ stage \in {"idle", "next", "writing", "written"}
  /\ stage = "idle" => todo = {}
  /\ stage # "idle" => version > 0 /\ ~complete /\ todo \subseteq FilesToWrite(version)
  /\ stage \in {"writing", "written"} => todo # {}
  /\ complete => version > 0
  /\ stage = "written" =>
       tmp[NextFile] = Whole(Payload(part[NextFile].bars, Chunk(version, NextFile)))

\* Nothing is on disk but bars of the source, in the file of their month, and in a
\* partition none twice.
Origin ==
  \A file \in Files :
    /\ part[file] \in {Absent, Whole(part[file].bars)}
    /\ tmp[file] # Absent => \E v \in 1 .. version : Chunk(v, file) # {}
    /\ \A bar \in part[file].bars : \E v \in 1 .. version : bar \in Chunk(v, file)
    /\ \A bar \in tmp[file].bars : \E v \in 1 .. version : bar \in Chunk(v, file)
    /\ \A bar, other \in part[file].bars : bar.at = other.at => bar = other

\* The files an ingestion has written, until the next one begins.
Delivered ==
  stage # "idle" \/ complete => \A file \in FilesToWrite(version) \ todo :
    /\ tmp[file] = Absent /\ part[file] = Whole(part[file].bars)
    /\ Chunk(version, file) \subseteq part[file].bars
    /\ source.overwrite => part[file] = Whole(Chunk(version, file))

\* A temporary file outlives its write only if its writer is killed.
NothingIsLeft ==
  kills = 0 => \A file \in Files :
    tmp[file] # Absent => stage \in {"writing", "written"} /\ file = NextFile

StoreInv ==
  /\ Shape /\ Progress /\ Origin /\ Delivered /\ NothingIsLeft
  /\ PartitionsAreWhole /\ ContextIsNotAhead

-----------------------------------------------------------------------------
\* A nonempty set of numbers has a least one, and, if it is bounded, a greatest.
LEMMA LeastNumber ==
  ASSUME NEW T, T \subseteq Nat, T # {}
  PROVE  \E n \in T : \A m \in T : n <= m
<1>1. PICK n \in T : \A m \in T : ~ (<<m, n>> \in OpToRel(<, Nat))
  BY NatLessThanWellFounded, WFMin
<1>2. \A m \in T : ~(m < n)
  BY <1>1 DEF OpToRel
<1> QED
  BY <1>2

LEMMA GreatestNumber ==
  ASSUME NEW n \in Nat, NEW T, T \subseteq 1 .. n, T # {}
  PROVE  Max(T) \in T /\ \A m \in T : m <= Max(T)
<1> DEFINE below == {n - m : m \in T}
<1>1. below \subseteq Nat /\ below # {}
  <2>1. \A m \in T : m \in Int /\ n - m \in Nat
    OBVIOUS
  <2> QED
    BY <2>1
<1>2. PICK least \in below : \A other \in below : least <= other
  BY <1>1, LeastNumber
<1>3. PICK m \in T : least = n - m
  OBVIOUS
<1>4. \A other \in T : m >= other
  <2> SUFFICES ASSUME NEW other \in T PROVE m >= other
    OBVIOUS
  <2>1. n - m <= n - other
    BY <1>2, <1>3
  <2> QED
    BY <2>1
<1>5. \E most \in T : \A other \in T : most >= other
  BY <1>4
<1>6. Max(T) \in T /\ \A other \in T : Max(T) >= other
  BY <1>5 DEF Max
<1> QED
  BY <1>6

\* The position of a table is its place in the list, the base table's the first.
LEMMA Positions ==
  /\ Base \in ToSet(Tables) /\ Position(Base) = 1
  /\ \A table \in ToSet(Tables) : Position(table) \in Nat \ {0} /\ Tables[Position(table)] = table
<1>1. Tables \in Seq(STRING) /\ Tables # <<>>
      /\ \A i, j \in DOMAIN Tables : Tables[i] = Tables[j] => i = j
  BY StoreAssumption DEF StoreAssumption
<1>2. Base = Tables[1] /\ 1 \in DOMAIN Tables /\ DOMAIN Tables \subseteq Nat \ {0}
  BY <1>1, HeadTailProperties, EmptySeq, LenProperties DEF Base
<1>3. ASSUME NEW table \in ToSet(Tables)
      PROVE  Position(table) \in DOMAIN Tables /\ Tables[Position(table)] = table
  <2>1. \E i \in DOMAIN Tables : Tables[i] = table
    BY DEF ToSet
  <2> QED
    BY <2>1 DEF Position
<1>4. Base \in ToSet(Tables)
  BY <1>2 DEF ToSet
<1> QED
  BY <1>1, <1>2, <1>3, <1>4

\* There is a file to be written next: the files are in order.
LEMMA FirstFile ==
  ASSUME NEW T, T \subseteq Files, T # {}
  PROVE  \E file \in T : \A other \in T : other = file \/ Before(file, other)
<1> DEFINE places == {Position(file[1]) : file \in T}
<1>1. \A file \in T : /\ file[1] \in ToSet(Tables) /\ file[2] \in Months
                      /\ file = <<file[1], file[2]>>
  BY DEF Files
<1>2. \A file \in T : /\ Position(file[1]) \in Nat
                      /\ Tables[Position(file[1])] = file[1] /\ file[2] \in Nat
  BY <1>1, Positions, StoreAssumption DEF StoreAssumption
<1>3. PICK place \in places : \A other \in places : place <= other
  <2>1. places \subseteq Nat /\ places # {}
    BY <1>2
  <2> QED
    BY <2>1, LeastNumber
<1> DEFINE there == {file \in T : Position(file[1]) = place}
           numbers == {file[2] : file \in there}
<1>4. PICK month \in numbers : \A other \in numbers : month <= other
  <2>1. there # {}
    BY <1>3
  <2>2. numbers \subseteq Nat /\ numbers # {}
    BY <1>2, <2>1
  <2> QED
    BY <2>2, LeastNumber
<1>5. PICK file \in T : Position(file[1]) = place /\ file[2] = month
  BY <1>4
<1>6. ASSUME NEW other \in T PROVE other = file \/ Before(file, other)
  <2>1. place <= Position(other[1])
    BY <1>3
  <2>2. CASE Position(other[1]) = place
    <3>1. other[1] = file[1] /\ month <= other[2]
      BY <1>2, <1>4, <1>5, <2>2
    <3>2. other[2] = file[2] => other = file
      BY <1>1, <3>1
    <3> QED
      BY <1>2, <1>5, <3>1, <3>2 DEF Before
  <2>3. CASE Position(other[1]) # place
    BY <1>2, <1>5, <2>1, <2>3 DEF Before
  <2> QED
    BY <2>2, <2>3
<1> QED
  BY <1>6

LEMMA NextFileIsFirst ==
  ASSUME Progress, todo # {}
  PROVE  /\ NextFile \in todo /\ NextFile \in Files
         /\ \A other \in todo : other = NextFile \/ Before(NextFile, other)
         /\ version > 0 /\ Chunk(version, NextFile) # {}
<1>1. stage # "idle" /\ todo \subseteq FilesToWrite(version) /\ version > 0
  BY DEF Progress
<1>2. todo \subseteq Files
  BY <1>1 DEF FilesToWrite
<1>3. NextFile \in todo /\ \A other \in todo : other = NextFile \/ Before(NextFile, other)
  BY <1>2, FirstFile DEF NextFile
<1> QED
  BY <1>1, <1>2, <1>3 DEF FilesToWrite

\* So while a context table is written no base bars are left to write.
LEMMA BaseIsFirst ==
  ASSUME Progress, todo # {}, NextFile[1] # Base, NEW month \in Months
  PROVE  <<Base, month>> \notin todo
<1> SUFFICES ASSUME <<Base, month>> \in todo PROVE FALSE
  OBVIOUS
<1>1. NextFile \in Files /\ (<<Base, month>> = NextFile \/ Before(NextFile, <<Base, month>>))
  BY NextFileIsFirst
<1>2. NextFile[1] \in ToSet(Tables)
  BY <1>1 DEF Files
<1>3. Position(NextFile[1]) < 1
  BY <1>1, Positions DEF Before
<1> QED
  BY <1>2, <1>3, Positions

\* What a version gives, and what the source it is of promises.
LEMMA Contents ==
  ASSUME Shape
  PROVE  /\ DOMAIN source.content = 1 .. Len(source.content) /\ Len(source.content) \in Nat
         /\ version \in Nat /\ 1 .. version \subseteq DOMAIN source.content
         /\ \A v \in DOMAIN source.content, table \in ToSet(Tables) :
              /\ source.content[v][table] # {}
              /\ \A bar \in source.content[v][table] : bar.month \in Months
         /\ StampsAreKeys(source.content)
         /\ source.overwrite => StampsAreKept(source)
BY StoreAssumption DEF StoreAssumption, Shape

-----------------------------------------------------------------------------
(***************************************************************************)
(* What is in the partitions stays true while they are untouched, whatever *)
(* version comes to be ingested.                                           *)
(***************************************************************************)
PartOrigin ==
  \A file \in Files :
    /\ part[file] \in {Absent, Whole(part[file].bars)}
    /\ \A bar \in part[file].bars : \E v \in 1 .. version : bar \in Chunk(v, file)
    /\ \A bar, other \in part[file].bars : bar.at = other.at => bar = other

TmpOrigin ==
  \A file \in Files :
    /\ tmp[file] # Absent => \E v \in 1 .. version : Chunk(v, file) # {}
    /\ \A bar \in tmp[file].bars : \E v \in 1 .. version : bar \in Chunk(v, file)

LEMMA OriginParts == Origin <=> PartOrigin /\ TmpOrigin
BY DEF Origin, PartOrigin, TmpOrigin

LEMMA PartitionsStay ==
  ASSUME StoreInv, source' = source, part' = part, version' \in version .. Len(source.content)
  PROVE  PartOrigin' /\ PartitionsAreWhole' /\ ContextIsNotAhead'
<1>1. \A v, file : Chunk(v, file)' = Chunk(v, file)
  BY DEF Chunk
<1>2. 1 .. version \subseteq 1 .. version'
  BY Contents DEF StoreInv
<1>3. \A file : Vintage(file) \subseteq Vintage(file)'
  BY <1>1, <1>2 DEF Vintage
<1>4. PartOrigin'
  BY <1>1, <1>2, OriginParts DEF StoreInv, PartOrigin
<1>5. PartitionsAreWhole'
  BY <1>3 DEF StoreInv, PartitionsAreWhole
<1>6. ContextIsNotAhead'
  <2> SUFFICES ASSUME source.overwrite,
                      NEW file \in Files, part[file] # Absent, file[1] # Head(Tables)
               PROVE  \E v \in Vintage(file)' : \A month \in Months :
                        Chunk(v, <<Head(Tables), month>>)' # {} =>
                          \E w \in Vintage(<<Head(Tables), month>>)' : v <= w
    BY DEF ContextIsNotAhead
  <2>1. PICK v \in Vintage(file) : \A month \in Months :
          Chunk(v, <<Head(Tables), month>>) # {} =>
            \E w \in Vintage(<<Head(Tables), month>>) : v <= w
    BY DEF StoreInv, ContextIsNotAhead
  <2> QED
    BY <1>1, <1>3, <2>1
<1> QED
  BY <1>4, <1>5, <1>6

\* A step that only touches the temporary file being written, if any.
LEMMA WritingStep ==
  ASSUME StoreInv, todo # {}, stage # "idle",
         UNCHANGED <<source, part, version, todo, complete, kills>>,
         NEW disk, tmp' = [tmp EXCEPT ![NextFile] = disk],
         stage' \in {"writing", "written"},
         disk.bars \subseteq part[NextFile].bars \cup Chunk(version, NextFile),
         stage' = "written" => disk = Whole(Payload(part[NextFile].bars, Chunk(version, NextFile)))
  PROVE  StoreInv'
<1>1. /\ \A v, file : Chunk(v, file)' = Chunk(v, file)
      /\ \A v : FilesToWrite(v)' = FilesToWrite(v)
      /\ \A existing, new : Payload(existing, new)' = Payload(existing, new)
      /\ NextFile' = NextFile
  BY DEF Chunk, FilesToWrite, Payload, NextFile
<1>2. NextFile \in todo /\ NextFile \in Files /\ version > 0 /\ Chunk(version, NextFile) # {}
  BY NextFileIsFirst DEF StoreInv
<1>3. \A file \in Files : tmp'[file] = IF file = NextFile THEN disk ELSE tmp[file]
  BY DEF StoreInv, Shape
<1>4. Shape'
  BY <1>3 DEF StoreInv, Shape
<1>5. Progress'
  BY <1>1, <1>2, <1>3 DEF StoreInv, Progress
<1>6. version \in version .. Len(source.content) /\ version \in 1 .. version
  BY <1>2, Contents DEF StoreInv, Shape
<1>7. PartOrigin' /\ PartitionsAreWhole' /\ ContextIsNotAhead'
  BY <1>6, PartitionsStay
<1>8. TmpOrigin'
  <2>1. \A bar \in disk.bars : \E v \in 1 .. version : bar \in Chunk(v, NextFile)
    BY <1>2, <1>6, OriginParts DEF StoreInv, PartOrigin
  <2> QED
    BY <1>1, <1>2, <1>3, <1>6, <2>1, OriginParts DEF StoreInv, TmpOrigin
<1>9. Delivered'
  BY <1>1, <1>2, <1>3 DEF StoreInv, Delivered, FilesToWrite
<1>10. NothingIsLeft'
  BY <1>1, <1>3 DEF StoreInv, NothingIsLeft
<1> QED
  BY <1>4, <1>5, <1>7, <1>8, <1>9, <1>10, OriginParts DEF StoreInv, Origin, PartOrigin, TmpOrigin

LEMMA WritesStep ==
  ASSUME StoreInv, BeginWrite \/ EndWrite
  PROVE  StoreInv'
<1>1. CASE BeginWrite
  BY <1>1, WritingStep DEF BeginWrite, Torn
<1>2. CASE EndWrite
  <2>1. todo # {} /\ stage # "idle"
    BY <1>2 DEF StoreInv, Progress, EndWrite
  <2> QED
    BY <1>2, <2>1, WritingStep DEF EndWrite, Whole, Payload
<1> QED
  BY <1>1, <1>2

LEMMA StartIngestStep ==
  ASSUME StoreInv, NEW v \in DOMAIN source.content, v >= version, StartIngest(v)
  PROVE  StoreInv'
<1>1. /\ stage = "idle" /\ version' = v /\ todo' = FilesToWrite(v) /\ stage' = "next"
      /\ complete' = FALSE /\ UNCHANGED <<source, part, tmp, kills>>
  BY DEF StartIngest
<1>2. v \in version .. Len(source.content) /\ v > 0 /\ version \in Nat /\ v \in Nat
  BY Contents DEF StoreInv
<1>3. \A u : FilesToWrite(u)' = FilesToWrite(u) /\ \A file : Chunk(u, file)' = Chunk(u, file)
  BY <1>1 DEF FilesToWrite, Chunk
<1>4. Shape' /\ Progress'
  BY <1>1, <1>2, <1>3 DEF StoreInv, Shape, Progress
<1>5. PartOrigin' /\ PartitionsAreWhole' /\ ContextIsNotAhead'
  BY <1>1, <1>2, PartitionsStay
<1>6. TmpOrigin'
  BY <1>1, <1>2, <1>3, OriginParts DEF StoreInv, TmpOrigin
<1>7. Delivered' /\ NothingIsLeft'
  BY <1>1, <1>3 DEF StoreInv, Delivered, NothingIsLeft
<1> QED
  BY <1>4, <1>5, <1>6, <1>7, OriginParts DEF StoreInv, Origin, PartOrigin, TmpOrigin

\* A process that ends, by itself or not, leaves the partitions alone.
LEMMA EndStep ==
  ASSUME StoreInv, Finish \/ WriteFails \/ Kill
  PROVE  StoreInv'
<1>1. /\ stage # "idle" /\ stage' = "idle" /\ todo' = {} /\ UNCHANGED <<source, part, version>>
      /\ complete' => todo = {}
      /\ kills' \in Nat
      /\ kills' = 0 => kills = 0 /\ ~Kill
  BY DEF Finish, WriteFails, Kill, StoreInv, Shape, Progress
<1>2. /\ tmp' = [file \in Files |-> tmp'[file]]
      /\ \A file \in Files :
           /\ tmp'[file] \in {tmp[file], Absent}
           /\ file = NextFile /\ WriteFails => tmp'[file] = Absent
  BY DEF Finish, WriteFails, Kill, StoreInv, Shape
<1>3. \A u : FilesToWrite(u)' = FilesToWrite(u) /\ \A file : Chunk(u, file)' = Chunk(u, file)
  BY <1>1 DEF FilesToWrite, Chunk
<1>4. Shape' /\ Progress'
  <2>1. Shape'
    BY <1>1, <1>2 DEF StoreInv, Shape
  <2>2. version' > 0
    BY <1>1 DEF StoreInv, Progress
  <2> QED
    BY <1>1, <2>1, <2>2 DEF Progress
<1>5. version \in version .. Len(source.content)
  BY Contents DEF StoreInv, Shape
<1>6. PartOrigin' /\ PartitionsAreWhole' /\ ContextIsNotAhead'
  BY <1>1, <1>5, PartitionsStay
<1>7. TmpOrigin'
  BY <1>1, <1>2, <1>3, OriginParts DEF StoreInv, TmpOrigin, Absent
<1>8. Delivered'
  BY <1>1, <1>2, <1>3 DEF StoreInv, Delivered, FilesToWrite
<1>9. NothingIsLeft'
  <2> SUFFICES ASSUME kills' = 0, NEW file \in Files PROVE tmp'[file] = Absent
    BY <1>1 DEF NothingIsLeft
  <2>1. kills = 0 /\ (Finish \/ WriteFails)
    BY <1>1
  <2>2. CASE Finish
    BY <2>1, <2>2 DEF Finish, StoreInv, NothingIsLeft
  <2>3. CASE WriteFails
    BY <1>2, <2>1, <2>3 DEF StoreInv, NothingIsLeft
  <2> QED
    BY <2>1, <2>2, <2>3
<1> QED
  BY <1>4, <1>6, <1>7, <1>8, <1>9, OriginParts DEF StoreInv, Origin, PartOrigin, TmpOrigin

\* The step that puts a file in its place.
LEMMA ReplaceStep ==
  ASSUME StoreInv, Replace
  PROVE  StoreInv'
<1>0. PICK file : file = NextFile
  OBVIOUS
<1> DEFINE new == Chunk(version, file)
<1>1. /\ UNCHANGED <<source, version, complete, kills>> /\ stage = "written" /\ stage' = "next"
      /\ part' = [part EXCEPT ![file] = tmp[file]]
      /\ tmp' = [tmp EXCEPT ![file] = Absent]
      /\ todo' = todo \ {file}
  BY <1>0 DEF Replace
<1>2. file \in todo /\ file \in Files /\ version > 0 /\ new # {}
  BY <1>0, <1>1, NextFileIsFirst DEF StoreInv, Progress
<1>3. tmp[file] = Whole(Payload(part[file].bars, new))
  BY <1>0, <1>1 DEF StoreInv, Progress
<1>4. \A f \in Files : /\ part'[f] = IF f = file THEN tmp[f] ELSE part[f]
                       /\ tmp'[f] = IF f = file THEN Absent ELSE tmp[f]
  BY <1>1 DEF StoreInv, Shape
<1>5. /\ \A v, f : Chunk(v, f)' = Chunk(v, f)
      /\ \A v : FilesToWrite(v)' = FilesToWrite(v)
  BY <1>1 DEF Chunk, FilesToWrite
<1>6. version \in 1 .. version
  BY <1>2, Contents DEF StoreInv
<1>7. /\ part'[file] = Whole(part'[file].bars)
      /\ new \subseteq part'[file].bars /\ part'[file].bars \subseteq new \cup part[file].bars
      /\ source.overwrite => part'[file] = Whole(new)
      /\ \A bar \in part'[file].bars, other \in new :
           bar \notin new => bar.at # other.at
  BY <1>2, <1>3, <1>4 DEF Payload, Whole
<1>8. Shape' /\ Progress'
  <2>1. Shape'
    BY <1>1, <1>4 DEF StoreInv, Shape
  <2> QED
    BY <1>1, <1>2, <1>5, <2>1 DEF StoreInv, Progress
<1>9. PartOrigin'
  <2> SUFFICES ASSUME NEW f \in Files
               PROVE  /\ part'[f] \in {Absent, Whole(part'[f].bars)}
                      /\ \A bar \in part'[f].bars : \E v \in 1 .. version : bar \in Chunk(v, f)
                      /\ \A bar, other \in part'[f].bars : bar.at = other.at => bar = other
    BY <1>1, <1>5 DEF PartOrigin
  <2>1. CASE f # file
    BY <1>4, <2>1, OriginParts DEF StoreInv, PartOrigin
  <2>2. CASE f = file
    <3>1. \A bar, other \in new : bar.at = other.at => bar = other
      <4>1. version \in DOMAIN source.content /\ file[1] \in ToSet(Tables)
        BY <1>2, <1>6, Contents DEF StoreInv, Files
      <4> QED
        BY <4>1, Contents DEF StoreInv, StampsAreKeys, Chunk
    <3>2. \A bar, other \in part[file].bars : bar.at = other.at => bar = other
      BY <1>2 DEF StoreInv, Origin
    <3>3. \A bar \in part'[file].bars : \E v \in 1 .. version : bar \in Chunk(v, file)
      BY <1>2, <1>6, <1>7 DEF StoreInv, Origin
    <3> QED
      BY <1>7, <2>2, <3>1, <3>2, <3>3
  <2> QED
    BY <2>1, <2>2
<1>10. TmpOrigin'
  BY <1>1, <1>4, <1>5, OriginParts DEF StoreInv, TmpOrigin, Absent
<1>11. Delivered'
  <2> SUFFICES ASSUME NEW f \in FilesToWrite(version), f \notin todo \ {file}
               PROVE  /\ tmp'[f] = Absent /\ part'[f] = Whole(part'[f].bars)
                      /\ Chunk(version, f) \subseteq part'[f].bars
                      /\ source.overwrite => part'[f] = Whole(Chunk(version, f))
    BY <1>1, <1>5 DEF Delivered
  <2>1. f \in Files
    BY DEF FilesToWrite
  <2>2. CASE f = file
    BY <1>4, <1>7, <2>1, <2>2
  <2>3. CASE f # file
    BY <1>1, <1>4, <2>1, <2>3 DEF StoreInv, Delivered
  <2> QED
    BY <2>2, <2>3
<1>12. NothingIsLeft'
  BY <1>0, <1>1, <1>4 DEF StoreInv, NothingIsLeft
<1>13. \A f \in Files : f # file => Vintage(f)' = Vintage(f)
  BY <1>1, <1>4, <1>5 DEF Vintage
<1>14. source.overwrite => version \in Vintage(file)'
  BY <1>1, <1>5, <1>6, <1>7 DEF Vintage
<1>15. PartitionsAreWhole'
  BY <1>1, <1>4, <1>13, <1>14 DEF StoreInv, PartitionsAreWhole
<1>16. ContextIsNotAhead'
  <2> SUFFICES ASSUME source.overwrite,
                      NEW f \in Files, part'[f] # Absent, f[1] # Base
               PROVE  \E v \in Vintage(f)' : \A month \in Months :
                        Chunk(v, <<Base, month>>) # {} =>
                          \E w \in Vintage(<<Base, month>>)' : v <= w
    BY <1>1, <1>5 DEF ContextIsNotAhead, Base
  <2>1. \A month \in Months : <<Base, month>> \in Files
    BY Positions DEF Files
  <2>2. CASE f = file
    <3>1. ASSUME NEW month \in Months, Chunk(version, <<Base, month>>) # {}
          PROVE  version \in Vintage(<<Base, month>>)'
      <4>1. <<Base, month>> \in FilesToWrite(version) \ todo
        BY <1>0, <1>2, <2>1, <2>2, <3>1, BaseIsFirst DEF StoreInv, FilesToWrite
      <4>2. part[<<Base, month>>] = Whole(Chunk(version, <<Base, month>>))
        BY <1>1, <4>1 DEF StoreInv, Delivered
      <4>3. <<Base, month>> # file
        BY <2>2
      <4> QED
        BY <1>6, <1>13, <2>1, <4>2, <4>3 DEF Vintage
    <3>2. version <= version
      BY <1>6
    <3> QED
      BY <1>14, <2>2, <3>1, <3>2
  <2>3. CASE f # file
    <3>1. PICK v \in Vintage(f) : \A month \in Months :
            Chunk(v, <<Base, month>>) # {} => \E w \in Vintage(<<Base, month>>) : v <= w
      BY <1>4, <2>3 DEF StoreInv, ContextIsNotAhead, Base
    <3>2. v \in Vintage(f)' /\ v <= version
      BY <1>13, <2>3 DEF Vintage
    <3> QED
      BY <1>13, <1>14, <2>1, <3>1, <3>2
  <2> QED
    BY <2>2, <2>3
<1> QED
  BY <1>8, <1>9, <1>10, <1>11, <1>12, <1>15, <1>16, OriginParts
  DEF StoreInv, Origin, PartOrigin, TmpOrigin

LEMMA StoreStart == Init => StoreInv
<1> SUFFICES ASSUME Init PROVE StoreInv
  OBVIOUS
<1>1. /\ source \in Sources /\ part = [file \in Files |-> Absent]
      /\ tmp = [file \in Files |-> Absent] /\ version = 0 /\ stage = "idle"
      /\ todo = {} /\ complete = FALSE /\ kills = 0
  BY DEF Init
<1>2. Shape
  BY <1>1, StoreAssumption DEF Shape, StoreAssumption
<1>3. \A file \in Files : part[file] = Absent /\ tmp[file] = Absent /\ Absent.bars = {}
  BY <1>1 DEF Absent
<1>4. Progress /\ Origin /\ Delivered /\ NothingIsLeft
  BY <1>1, <1>3 DEF Progress, Origin, Delivered, NothingIsLeft
<1> QED
  BY <1>2, <1>3, <1>4 DEF StoreInv, PartitionsAreWhole, ContextIsNotAhead

LEMMA StoreStep ==
  ASSUME StoreInv, [Next]_vars
  PROVE  StoreInv'
<1>1. CASE \E v \in DOMAIN source.content : v >= version /\ StartIngest(v)
  BY <1>1, StartIngestStep
<1>2. CASE BeginWrite \/ EndWrite
  BY <1>2, WritesStep
<1>3. CASE Replace
  BY <1>3, ReplaceStep
<1>4. CASE Finish \/ WriteFails \/ Kill
  BY <1>4, EndStep
<1>5. CASE UNCHANGED vars
  <2>1. UNCHANGED <<source, part, tmp, version, todo, stage, complete, kills>>
    BY <1>5 DEF vars
  <2>2. /\ \A v, file : Chunk(v, file)' = Chunk(v, file)
        /\ \A v : FilesToWrite(v)' = FilesToWrite(v)
        /\ \A file : Vintage(file)' = Vintage(file)
        /\ \A existing, new : Payload(existing, new)' = Payload(existing, new)
        /\ NextFile' = NextFile
    BY <2>1 DEF Chunk, FilesToWrite, Vintage, Payload, NextFile
  <2>3. Shape' /\ Progress'
    BY <2>1, <2>2 DEF StoreInv, Shape, Progress
  <2>4. Origin' /\ Delivered' /\ NothingIsLeft'
    BY <2>1, <2>2 DEF StoreInv, Origin, Delivered, NothingIsLeft
  <2>5. PartitionsAreWhole' /\ ContextIsNotAhead'
    BY <2>1, <2>2 DEF StoreInv, PartitionsAreWhole, ContextIsNotAhead
  <2> QED
    BY <2>3, <2>4, <2>5 DEF StoreInv
<1> QED
  BY <1>1, <1>2, <1>3, <1>4, <1>5 DEF Next

LEMMA StoreInvariant == Spec => []StoreInv
BY StoreStart, StoreStep, PTL DEF Spec

\* A partition of the bar store holds the whole month of one version of the
\* source, however ingestions are interrupted (data/store.py, "atomic").
THEOREM PartitionsAreAlwaysWhole == Spec => []PartitionsAreWhole
<1>1. StoreInv => PartitionsAreWhole
  BY DEF StoreInv
<1> QED
  BY <1>1, StoreInvariant, PTL

\* However ingestions are interrupted, every month of context is of a version of
\* the source all of whose base bars are stored (data/pipeline.py writes the base
\* frame first).
THEOREM ContextIsNeverAhead == Spec => []ContextIsNotAhead
<1>1. StoreInv => ContextIsNotAhead
  BY DEF StoreInv
<1> QED
  BY <1>1, StoreInvariant, PTL

-----------------------------------------------------------------------------
(***************************************************************************)
(* What readers get: a table without temporary files is read, and gives    *)
(* what its partitions hold.                                               *)
(***************************************************************************)
LEMMA TableIsRead ==
  ASSUME Shape, PartOrigin, NEW table \in ToSet(Tables),
         \A month \in Months : tmp[<<table, month>>] = Absent,
         \E month \in Months : part[<<table, month>>] # Absent
  PROVE  /\ ReadBars(table).error = "none"
         /\ \A month \in Months : part[<<table, month>>].bars \subseteq ReadBars(table).bars
         /\ \A bar \in ReadBars(table).bars :
              bar.month \in Months /\ bar \in part[<<table, bar.month>>].bars
<1>1. ASSUME NEW scan \in Scanned(table)
      PROVE  /\ scan.file \in Files /\ scan.file = <<table, scan.file[2]>>
             /\ scan.name = "part.parquet" /\ Found(scan) = part[scan.file]
             /\ scan = [name |-> "part.parquet", file |-> scan.file]
             /\ Found(scan) # Absent
  BY DEF Scanned, Files, Found
<1>2. ASSUME NEW scan \in Scanned(table)
      PROVE  /\ Found(scan) = Whole(Found(scan).bars)
             /\ \A bar \in Found(scan).bars : bar.month = scan.file[2] /\
                  \E v \in DOMAIN source.content : bar \in source.content[v][table]
             /\ \A bar, other \in Found(scan).bars : bar.at = other.at => bar = other
  <2>1. Found(scan) = Whole(Found(scan).bars)
    BY <1>1 DEF PartOrigin
  <2>2. ASSUME NEW bar \in Found(scan).bars
        PROVE  \E v \in DOMAIN source.content : bar \in Chunk(v, scan.file)
    BY <1>1, Contents DEF PartOrigin
  <2>3. \A v : \A bar \in Chunk(v, scan.file) :
          bar.month = scan.file[2] /\ bar \in source.content[v][table]
    BY <1>1 DEF Chunk
  <2>4. \A bar, other \in Found(scan).bars : bar.at = other.at => bar = other
    BY <1>1 DEF PartOrigin
  <2> QED
    BY <2>1, <2>2, <2>3, <2>4
<1>3. ~\E scan \in Scanned(table) : Found(scan) = Torn
  BY <1>2 DEF Whole, Torn
<1>4. \A s, u \in Scanned(table) : s # u =>
        \A bar \in Found(s).bars, other \in Found(u).bars : bar.at # other.at
  <2> SUFFICES ASSUME NEW s \in Scanned(table), NEW u \in Scanned(table), s # u,
                      NEW bar \in Found(s).bars, NEW other \in Found(u).bars,
                      bar.at = other.at
               PROVE  FALSE
    OBVIOUS
  <2>1. bar.month = other.month
    BY <1>2, Contents DEF StampsAreKeys
  <2>2. s.file = u.file
    BY <1>1, <1>2, <2>1
  <2> QED
    BY <1>1, <2>2
<1>5. ASSUME NEW month \in Months, part[<<table, month>>] # Absent
      PROVE  /\ [name |-> "part.parquet", file |-> <<table, month>>] \in Scanned(table)
             /\ Found([name |-> "part.parquet", file |-> <<table, month>>]) = part[<<table, month>>]
  BY <1>5 DEF Scanned, Found
<1>6. ReadBars(table) =
        [error |-> "none", bars |-> UNION {Found(scan).bars : scan \in Scanned(table)}]
  <2>1. Scanned(table) # {}
    BY <1>5
  <2> QED
    BY <1>3, <1>4, <2>1 DEF ReadBars
<1>7. ASSUME NEW month \in Months
      PROVE  part[<<table, month>>].bars \subseteq ReadBars(table).bars
  <2>1. CASE part[<<table, month>>] = Absent
    BY <2>1 DEF Absent
  <2>2. CASE part[<<table, month>>] # Absent
    <3>1. PICK scan \in Scanned(table) : Found(scan) = part[<<table, month>>]
      BY <1>5, <2>2
    <3> QED
      BY <1>6, <3>1
  <2> QED
    BY <2>1, <2>2
<1>8. ASSUME NEW bar \in ReadBars(table).bars
      PROVE  bar.month \in Months /\ bar \in part[<<table, bar.month>>].bars
  <2>1. PICK scan \in Scanned(table) : bar \in Found(scan).bars
    BY <1>6
  <2>2. scan.file[2] \in Months
    BY <1>1 DEF Files
  <2> QED
    BY <1>1, <1>2, <2>1, <2>2
<1> QED
  BY <1>6, <1>7, <1>8

\* An ingestion that has run to its end has written every file of its version.
LEMMA CompleteIsDelivered ==
  ASSUME StoreInv, complete
  PROVE  /\ version \in DOMAIN source.content /\ stage = "idle"
         /\ \A table \in ToSet(Tables) : \A month \in Months \ Gone(table) :
              /\ tmp[<<table, month>>] = Absent
              /\ part[<<table, month>>] = Whole(part[<<table, month>>].bars)
              /\ Chunk(version, <<table, month>>) \subseteq part[<<table, month>>].bars
              /\ source.overwrite =>
                   part[<<table, month>>].bars = Chunk(version, <<table, month>>)
         /\ \A table \in ToSet(Tables) : \A bar \in source.content[version][table] :
              /\ bar.month \in Months \ Gone(table)
              /\ bar \in Chunk(version, <<table, bar.month>>)
<1>1. stage = "idle" /\ todo = {} /\ version \in 1 .. version
  BY Contents DEF StoreInv, Progress
<1>2. ASSUME NEW table \in ToSet(Tables), NEW month \in Months \ Gone(table)
      PROVE  <<table, month>> \in FilesToWrite(version) \ todo
  BY <1>1 DEF Gone, FilesToWrite, Files
<1>3. ASSUME NEW table \in ToSet(Tables), NEW bar \in source.content[version][table]
      PROVE  bar.month \in Months \ Gone(table) /\ bar \in Chunk(version, <<table, bar.month>>)
  <2>1. bar \in Chunk(version, <<table, bar.month>>) /\ bar.month \in Months
    BY <1>1, Contents DEF StoreInv, Chunk
  <2> QED
    BY <2>1 DEF Gone
<1>4. version \in DOMAIN source.content
  BY <1>1, Contents DEF StoreInv
<1>5. ASSUME NEW table \in ToSet(Tables), NEW month \in Months \ Gone(table)
      PROVE  /\ tmp[<<table, month>>] = Absent
             /\ part[<<table, month>>] = Whole(part[<<table, month>>].bars)
             /\ Chunk(version, <<table, month>>) \subseteq part[<<table, month>>].bars
             /\ source.overwrite =>
                  part[<<table, month>>].bars = Chunk(version, <<table, month>>)
  <2> DEFINE file == <<table, month>>
  <2>1. file \in FilesToWrite(version) \ todo
    BY <1>2
  <2> HIDE DEF file
  <2>2. /\ tmp[file] = Absent /\ part[file] = Whole(part[file].bars)
        /\ Chunk(version, file) \subseteq part[file].bars
        /\ source.overwrite => part[file] = Whole(Chunk(version, file))
    BY <2>1 DEF StoreInv, Delivered
  <2>3. Whole(Chunk(version, file)).bars = Chunk(version, file)
    BY DEF Whole
  <2> QED
    BY <2>2, <2>3 DEF file
<1> QED
  BY <1>1, <1>3, <1>4, <1>5

LEMMA ReadWhenComplete ==
  ASSUME StoreInv
  PROVE  CompleteIngestIsRead
<1> SUFFICES ASSUME source.overwrite, complete, NEW table \in ToSet(Tables),
                    \A month \in Gone(table) : tmp[<<table, month>>] = Absent
             PROVE  /\ ReadBars(table).error = "none"
                    /\ {bar \in ReadBars(table).bars : bar.month \notin Gone(table)}
                         = source.content[version][table]
  BY DEF CompleteIngestIsRead
<1>1. PICK bar : bar \in source.content[version][table]
  BY CompleteIsDelivered, Contents DEF StoreInv
<1>2. \A month \in Months : tmp[<<table, month>>] = Absent
  BY CompleteIsDelivered
<1>3. \E month \in Months : part[<<table, month>>] # Absent
  <2>1. bar.month \in Months \ Gone(table)
    BY <1>1, CompleteIsDelivered
  <2>2. part[<<table, bar.month>>] = Whole(part[<<table, bar.month>>].bars)
    BY <2>1, CompleteIsDelivered
  <2> QED
    BY <2>1, <2>2 DEF Whole, Absent
<1>4. /\ ReadBars(table).error = "none"
      /\ \A month \in Months : part[<<table, month>>].bars \subseteq ReadBars(table).bars
      /\ \A read \in ReadBars(table).bars :
           read.month \in Months /\ read \in part[<<table, read.month>>].bars
  BY <1>2, <1>3, TableIsRead, OriginParts DEF StoreInv
<1>5. ASSUME NEW read \in ReadBars(table).bars, read.month \notin Gone(table)
      PROVE  read \in source.content[version][table]
  <2>1. read.month \in Months \ Gone(table) /\ read \in part[<<table, read.month>>].bars
    BY <1>4, <1>5
  <2>2. read \in Chunk(version, <<table, read.month>>)
    BY <2>1, CompleteIsDelivered
  <2> QED
    BY <2>2 DEF Chunk
<1>6. ASSUME NEW given \in source.content[version][table]
      PROVE  given \in ReadBars(table).bars /\ given.month \notin Gone(table)
  BY <1>4, CompleteIsDelivered
<1> QED
  BY <1>4, <1>5, <1>6

\* After an ingestion that has run to its end, readers get its bars and nothing
\* else of the months it has, whatever was interrupted before it; only what a
\* killed writer left of a month it does not have can make a table unreadable.
THEOREM CompleteIngestsAreRead == Spec => []CompleteIngestIsRead
BY ReadWhenComplete, StoreInvariant, PTL

\* As long as no process is killed, what the last ingestion brought is read, with
\* existing partitions kept, too, and after any number of writes that failed.
THEOREM NewBarsAreAlwaysRead == Spec => []NewBarsAreRead
<1>1. ASSUME StoreInv PROVE NewBarsAreRead
  <2> SUFFICES ASSUME complete, kills = 0, NEW table \in ToSet(Tables)
               PROVE  /\ ReadBars(table).error = "none"
                      /\ source.content[version][table] \subseteq ReadBars(table).bars
    BY DEF NewBarsAreRead
  <2>1. version \in DOMAIN source.content /\ stage = "idle"
    BY <1>1, CompleteIsDelivered
  <2>2. \A month \in Months : <<table, month>> \in Files /\ tmp[<<table, month>>] = Absent
    BY <1>1, <2>1 DEF StoreInv, NothingIsLeft, Files
  <2>3. ASSUME NEW bar \in source.content[version][table]
        PROVE  /\ bar.month \in Months /\ bar \in part[<<table, bar.month>>].bars
               /\ part[<<table, bar.month>>] # Absent
    <3>1. bar.month \in Months \ Gone(table) /\ bar \in Chunk(version, <<table, bar.month>>)
      BY <1>1, CompleteIsDelivered
    <3>2. bar \in part[<<table, bar.month>>].bars
      BY <1>1, <3>1, CompleteIsDelivered
    <3> QED
      BY <3>1, <3>2 DEF Absent
  <2>4. source.content[version][table] # {}
    BY <1>1, <2>1, Contents DEF StoreInv
  <2>5. \E month \in Months : part[<<table, month>>] # Absent
    BY <2>3, <2>4
  <2>6. /\ ReadBars(table).error = "none"
        /\ \A month \in Months : part[<<table, month>>].bars \subseteq ReadBars(table).bars
    BY <1>1, <2>2, <2>5, TableIsRead, OriginParts DEF StoreInv
  <2> QED
    BY <2>3, <2>6
<1> QED
  BY <1>1, StoreInvariant, PTL

\* No step loses a stamp that is stored: merging keeps it, and what overwrites it
\* has it (data/store.py, write_bars).
THEOREM NoStampIsEverLost == Spec => NoStampIsLost
<1>1. ASSUME StoreInv, [Next]_vars
      PROVE  [\A file \in Files : \A bar \in part[file].bars :
                \E kept \in part'[file].bars : kept.at = bar.at]_vars
  <2> SUFFICES ASSUME NEW file \in Files, NEW bar \in part[file].bars
               PROVE  \E kept \in part'[file].bars : kept.at = bar.at
    OBVIOUS
  <2>1. CASE UNCHANGED part
    BY <2>1
  <2>2. CASE Replace
    <3>1. /\ part' = [part EXCEPT ![NextFile] = tmp[NextFile]] /\ stage = "written"
          /\ NextFile \in Files /\ version > 0 /\ Chunk(version, NextFile) # {}
          /\ tmp[NextFile] = Whole(Payload(part[NextFile].bars, Chunk(version, NextFile)))
      BY <1>1, <2>2, NextFileIsFirst DEF Replace, StoreInv, Progress
    <3>2. CASE file # NextFile
      BY <1>1, <3>1, <3>2 DEF StoreInv, Shape
    <3>3. CASE file = NextFile
      <4>1. part'[file].bars = Payload(part[file].bars, Chunk(version, file))
        BY <1>1, <3>1, <3>3 DEF StoreInv, Shape, Whole
      <4>2. CASE ~source.overwrite
        BY <4>1, <4>2 DEF Payload
      <4>3. CASE source.overwrite
        <5>1. PICK v \in 1 .. version : bar \in Chunk(v, file)
          BY <1>1 DEF StoreInv, Origin
        <5>2. /\ v \in DOMAIN source.content /\ file[1] \in ToSet(Tables)
              /\ version \in v .. Len(source.content) /\ version \in DOMAIN source.content
          BY <1>1, <3>1, <5>1, Contents DEF StoreInv, Shape, Files
        <5>3. bar \in source.content[v][file[1]] /\ bar.month = file[2]
          BY <5>1 DEF Chunk
        <5>4. \/ \E kept \in source.content[version][file[1]] : kept.at = bar.at
              \/ \A kept \in source.content[version][file[1]] : kept.month # bar.month
          BY <1>1, <4>3, <5>2, <5>3, Contents DEF StoreInv, StampsAreKept
        <5>5. PICK kept \in source.content[version][file[1]] : kept.at = bar.at
          BY <3>1, <3>3, <5>3, <5>4 DEF Chunk
        <5>6. kept.month = bar.month
          BY <1>1, <5>2, <5>3, <5>5, Contents DEF StoreInv, StampsAreKeys
        <5> QED
          BY <4>1, <4>3, <5>3, <5>5, <5>6 DEF Payload, Chunk
      <4> QED
        BY <4>2, <4>3
    <3> QED
      BY <3>2, <3>3
  <2> QED
    BY <1>1, <2>1, <2>2 DEF Next, StartIngest, BeginWrite, EndWrite, Finish, WriteFails, Kill, vars
<1> QED
  BY <1>1, StoreInvariant, PTL DEF Spec, NoStampIsLost

-----------------------------------------------------------------------------
(***************************************************************************)
(* The command line and the feature store.                                 *)
(***************************************************************************)

\* What is ingested is a version there is.
LatestInv == latest \in DOMAIN source.content /\ version <= latest

\* The feature store: a manifest that can be read is of a build that was finished
\* and of which every month is there; what is there is filed under its version.
BuildInv ==
  /\ Features!TypeOK
  /\ \A fs \in Features!FsVersions :
       /\ manifest[fs] \notin {None, TornFile} =>
            /\ fs \in finished
            /\ manifest[fs].features = fs
            /\ manifest[fs].months \subseteq Features!Stored(fs)
       /\ \A month \in Features!Stored(fs) : rows[fs][month].features = fs
  /\ job # None => \A month \in job.months \ months : rows[job.features][month] = job

-----------------------------------------------------------------------------
\* Every step of the pipeline is a step of the bar store, or none.
LEMMA PipelineStepsAreStoreSteps ==
  ASSUME LatestInv, [PipelineNext]_pipelineVars
  PROVE  [Next]_vars
<1>1. SourceGrows \/ BuildWrites \/ BuildEnds \/ BuildIsInterrupted => UNCHANGED vars
  BY DEF SourceGrows, BuildWrites, BuildEnds, BuildIsInterrupted
<1>2. (\E config \in Configs : RunBuild(config) \/ BuildIsRefused(config)) => UNCHANGED vars
  BY DEF RunBuild, BuildIsRefused
<1>3. RunIngest => Next
  BY DEF RunIngest, LatestInv, Next
<1>4. IngestWrites \/ IngestEnds \/ IngestIsInterrupted => Next
  BY DEF IngestWrites, IngestEnds, IngestIsInterrupted, Next
<1>5. UNCHANGED pipelineVars => UNCHANGED vars
  BY DEF pipelineVars
<1> QED
  BY <1>1, <1>2, <1>3, <1>4, <1>5 DEF PipelineNext, Command, Work, Interruption

LEMMA LatestStep ==
  ASSUME StoreInv, LatestInv, [PipelineNext]_pipelineVars
  PROVE  LatestInv'
<1>1. DOMAIN source.content = 1 .. Len(source.content) /\ Len(source.content) \in Nat
      /\ version \in Nat
  BY Contents DEF StoreInv
<1>2. SourceGrows => LatestInv'
  BY <1>1 DEF SourceGrows, LatestInv, vars
<1>3. RunIngest => LatestInv'
  BY <1>1 DEF RunIngest, StartIngest, LatestInv
<1>4. (\E config \in Configs : RunBuild(config) \/ BuildIsRefused(config)) => LatestInv'
  BY DEF RunBuild, BuildIsRefused, LatestInv, vars
<1>5. BuildWrites \/ BuildEnds \/ BuildIsInterrupted => LatestInv'
  BY DEF BuildWrites, BuildEnds, BuildIsInterrupted, LatestInv, vars
<1>6. IngestWrites \/ IngestEnds \/ IngestIsInterrupted => LatestInv'
  BY DEF IngestWrites, IngestEnds, IngestIsInterrupted, LatestInv,
     BeginWrite, EndWrite, Replace, Finish, WriteFails, Kill
<1>7. UNCHANGED pipelineVars => LatestInv'
  BY DEF pipelineVars, vars, LatestInv
<1> QED
  BY <1>2, <1>3, <1>4, <1>5, <1>6, <1>7 DEF PipelineNext, Command, Work, Interruption

LEMMA LatestStart == PipelineInit => StoreInv /\ LatestInv
<1> SUFFICES ASSUME PipelineInit PROVE StoreInv /\ LatestInv
  OBVIOUS
<1>1. StoreInv /\ version = 0 /\ latest = 1
  BY StoreStart DEF PipelineInit, Init
<1>2. source \in Sources
  BY <1>1 DEF StoreInv, Shape
<1> QED
  BY <1>1, <1>2, StoreAssumption DEF LatestInv, StoreAssumption

LEMMA StoresAreKept == PipelineSpec => [](StoreInv /\ LatestInv)
<1>1. StoreInv /\ LatestInv /\ [PipelineNext]_pipelineVars => (StoreInv /\ LatestInv)'
  BY PipelineStepsAreStoreSteps, LatestStep, StoreStep
<1> QED
  BY <1>1, LatestStart, PTL DEF PipelineSpec

\* The command line drives the bar store as its own specification allows, so what
\* is proved of the bar store is true of the pipeline.
THEOREM PipelineIsBarStore == PipelineSpec => Spec
<1>1. PipelineInit => Init
  BY DEF PipelineInit
<1>2. LatestInv /\ [PipelineNext]_pipelineVars => [Next]_vars
  BY PipelineStepsAreStoreSteps
<1> QED
  BY <1>1, <1>2, StoresAreKept, PTL DEF PipelineSpec, Spec

-----------------------------------------------------------------------------
\* What is read from a table is of some version of the source, whatever is on disk.
LEMMA ReadIsOfSource ==
  ASSUME StoreInv, NEW table \in ToSet(Tables), NEW bar \in ReadBars(table).bars
  PROVE  \E v \in 1 .. version : bar \in source.content[v][table]
<1>1. PICK scan \in Scanned(table) : bar \in Found(scan).bars
  BY DEF ReadBars
<1>2. scan.file \in Files /\ scan.file[1] = table
  BY DEF Scanned, Files
<1>3. \E v \in 1 .. version : bar \in Chunk(v, scan.file)
  BY <1>1, <1>2 DEF Found, StoreInv, Origin
<1> QED
  BY <1>2, <1>3 DEF Chunk

\* What the command line hands to the feature store is one of the builds it is
\* specified for.
LEMMA BuildIsOne ==
  ASSUME StoreInv, NEW config \in Configs
  PROVE  BuildOf(config) \in Builds
<1> DEFINE read == ReadBars(Base).bars
<1>1. \A bar \in read : bar.month \in Months
  BY ReadIsOfSource, Positions, Contents DEF StoreInv
<1>2. VersionRead(config) \in Versions \cup {0}
  <2> DEFINE whole == {v \in 1 .. version : \A table \in TablesOf(config) :
                         ReadBars(table).bars = source.content[v][table]}
  <2>1. VersionRead(config) = IF whole = {} THEN 0 ELSE Max(whole)
    BY DEF VersionRead
  <2>2. version \in Nat /\ 1 .. version \subseteq DOMAIN source.content /\ source \in Sources
    BY Contents DEF StoreInv, Shape
  <2>3. whole # {} => Max(whole) \in 1 .. version
    <3>1. whole \subseteq 1 .. version
      OBVIOUS
    <3> HIDE DEF whole
    <3> QED
      BY <2>2, <3>1, GreatestNumber
  <2> HIDE DEF whole
  <2> QED
    BY <2>1, <2>2, <2>3 DEF Versions
<1> HIDE DEF read
<1> QED
  BY <1>1, <1>2 DEF BuildOf, Builds, read, Base

\* So every step of the pipeline is a step of the feature store, or none.
LEMMA PipelineStepsAreBuildSteps ==
  ASSUME StoreInv, [PipelineNext]_pipelineVars
  PROVE  [Features!Next]_buildVars
<1>1. SourceGrows \/ RunIngest \/ IngestWrites \/ IngestEnds \/ IngestIsInterrupted
        => UNCHANGED buildVars
  BY DEF SourceGrows, RunIngest, IngestWrites, IngestEnds, IngestIsInterrupted
<1>2. ASSUME NEW config \in Configs, RunBuild(config) \/ BuildIsRefused(config)
      PROVE  [Features!Next]_buildVars
  BY <1>2, BuildIsOne DEF RunBuild, BuildIsRefused, Features!Next
<1>3. BuildWrites \/ BuildEnds \/ BuildIsInterrupted => Features!Next
  BY DEF BuildWrites, BuildEnds, BuildIsInterrupted, Features!Next
<1>4. UNCHANGED pipelineVars => UNCHANGED buildVars
  BY DEF pipelineVars
<1> QED
  BY <1>1, <1>2, <1>3, <1>4 DEF PipelineNext, Command, Work, Interruption

\* What is known of a build, and of the job that writes one.
LEMMA BuildFacts ==
  /\ None \notin Builds /\ TornFile \notin Builds /\ MaxBuildKills \in Nat
  /\ \A build \in Builds : /\ build.months \subseteq Nat
                           /\ build.months \subseteq Features!BuildMonths
                           /\ build.features \in Features!FsVersions
                           /\ Features!FsVersion(build) = build.features
BY PipelineAssumption
DEF PipelineAssumption, Features!FeatureStoreAssumption, Features!BuildMonths,
    Features!FsVersions, Features!FsVersion

LEMMA StartWriteStep ==
  ASSUME BuildInv, NEW build \in Builds, Features!StartWrite(build)
  PROVE  BuildInv'
BY BuildFacts DEF BuildInv, Features!StartWrite, Features!TypeOK, Features!Stored

LEMMA WritePartStep ==
  ASSUME BuildInv, Features!WritePart
  PROVE  BuildInv'
<1> DEFINE fs == job.features
           month == CHOOSE m \in months : \A other \in months : m <= other
<1>1. /\ job \in Builds /\ months \subseteq job.months /\ months # {}
      /\ fs \in Features!FsVersions /\ Features!FsVersion(job) = fs
      /\ months \subseteq Nat /\ months \subseteq Features!BuildMonths
  BY BuildFacts DEF BuildInv, Features!WritePart, Features!TypeOK
<1>2. month \in months
  <2>1. \E m \in months : \A other \in months : m <= other
    BY <1>1, LeastNumber
  <2> QED
    BY <2>1
<1>3. /\ rows' = [rows EXCEPT ![fs][month] = job] /\ months' = months \ {month}
      /\ manifest' = manifest /\ job' = job /\ finished' = finished /\ buildKills' = buildKills
  BY <1>1 DEF Features!WritePart
<1> HIDE DEF month, fs
<1>4. rows \in [Features!FsVersions -> [Features!BuildMonths -> Builds \cup {None}]]
  BY DEF BuildInv, Features!TypeOK
<1>5. /\ rows' \in [Features!FsVersions -> [Features!BuildMonths -> Builds \cup {None}]]
      /\ \A v \in Features!FsVersions, m \in Features!BuildMonths :
           rows'[v][m] = IF v = fs /\ m = month THEN job ELSE rows[v][m]
  BY <1>1, <1>2, <1>3, <1>4
<1>6. Features!TypeOK'
  BY <1>1, <1>3, <1>5 DEF BuildInv, Features!TypeOK
<1> DEFINE stored(v) == {m \in Features!BuildMonths : rows'[v][m] # None}
<1>7. ASSUME NEW v \in Features!FsVersions
      PROVE  stored(v) = Features!Stored(v) \cup (IF v = fs THEN {month} ELSE {})
  <2>1. job # None /\ month \in Features!BuildMonths
    BY <1>1, <1>2, BuildFacts
  <2>2. \A m \in Features!BuildMonths :
          rows'[v][m] # None <=> rows[v][m] # None \/ (v = fs /\ m = month)
    BY <1>5, <2>1
  <2> QED
    BY <2>1, <2>2 DEF Features!Stored
<1>8. ASSUME NEW v \in Features!FsVersions, NEW m \in stored(v)
      PROVE  rows'[v][m].features = v
  <2>1. CASE v = fs /\ m = month
    BY <1>5, <2>1 DEF fs
  <2>2. CASE ~(v = fs /\ m = month)
    BY <1>5, <2>2 DEF BuildInv, Features!Stored
  <2> QED
    BY <2>1, <2>2
<1>9. \A m \in job'.months \ months' : rows'[job'.features][m] = job'
  <2>1. job'.features = fs /\ \A m \in job.months \ months : rows[fs][m] = job
    BY <1>1, <1>3, BuildFacts DEF BuildInv, fs
  <2>2. job.months \subseteq Features!BuildMonths
    BY <1>1, BuildFacts
  <2> QED
    BY <1>1, <1>3, <1>5, <2>1, <2>2
<1>10. \A v \in Features!FsVersions : Features!Stored(v) \subseteq stored(v)
  BY <1>7
<1> QED
  BY <1>3, <1>6, <1>8, <1>9, <1>10 DEF BuildInv, Features!Stored

LEMMA ManifestStep ==
  ASSUME BuildInv, Features!OpenManifest \/ Features!FillManifest
  PROVE  BuildInv'
<1> DEFINE fs == job.features
<1>1. /\ job \in Builds /\ months = {} /\ fs \in Features!FsVersions
      /\ Features!FsVersion(job) = fs /\ rows' = rows /\ months' = months
      /\ buildKills' = buildKills
  BY BuildFacts DEF BuildInv, Features!TypeOK, Features!OpenManifest, Features!FillManifest
<1>2. \A v : Features!Stored(v)' = Features!Stored(v)
  BY <1>1 DEF Features!Stored
<1>3. job.months \subseteq Features!Stored(fs) /\ \A m \in job.months : rows[fs][m] = job
  BY <1>1, BuildFacts DEF BuildInv, Features!Stored
<1>4. CASE Features!OpenManifest
  <2>1. manifest' = [manifest EXCEPT ![fs] = TornFile] /\ job' = job /\ finished' = finished
    BY <1>1, <1>4 DEF Features!OpenManifest
  <2>2. Features!TypeOK'
    BY <1>1, <2>1 DEF BuildInv, Features!TypeOK
  <2>3. \A v \in Features!FsVersions :
          manifest'[v] \notin {None, TornFile} => manifest'[v] = manifest[v]
    BY <2>1 DEF BuildInv, Features!TypeOK
  <2> QED
    BY <1>1, <1>2, <2>1, <2>2, <2>3 DEF BuildInv
<1>5. CASE Features!FillManifest
  <2>1. /\ manifest' = [manifest EXCEPT ![fs] = job] /\ job' = None
        /\ finished' = finished \cup {fs}
    BY <1>1, <1>5 DEF Features!FillManifest
  <2>2. Features!TypeOK'
    BY <1>1, <2>1 DEF BuildInv, Features!TypeOK
  <2>3. \A v \in Features!FsVersions :
          manifest'[v] = IF v = fs THEN job ELSE manifest[v]
    BY <2>1 DEF BuildInv, Features!TypeOK
  <2>4. \A v \in Features!FsVersions : manifest'[v] \notin {None, TornFile} =>
          /\ v \in finished' /\ manifest'[v].features = v
          /\ manifest'[v].months \subseteq Features!Stored(v)
    BY <1>3, <2>1, <2>3 DEF BuildInv
  <2> QED
    BY <1>1, <1>2, <2>1, <2>2, <2>4 DEF BuildInv
<1> QED
  BY <1>4, <1>5

LEMMA InterruptionStep ==
  ASSUME BuildInv, Features!WriteFails \/ Features!Kill \/ UNCHANGED buildVars
  PROVE  BuildInv'
<1>1. /\ rows' = rows /\ manifest' = manifest /\ finished' = finished
      /\ \/ job' = job /\ months' = months
         \/ job' = None /\ months' = {}
      /\ buildKills' \in 0 .. MaxBuildKills
  BY BuildFacts DEF BuildInv, Features!TypeOK, Features!WriteFails, Features!Kill, buildVars
<1>2. \A v : Features!Stored(v)' = Features!Stored(v)
  BY <1>1 DEF Features!Stored
<1>3. Features!TypeOK'
  BY <1>1 DEF BuildInv, Features!TypeOK
<1> QED
  BY <1>1, <1>2, <1>3 DEF BuildInv

LEMMA BuildStart == PipelineInit => BuildInv
<1> SUFFICES ASSUME PipelineInit PROVE BuildInv
  OBVIOUS
<1>1. Features!Init
  BY DEF PipelineInit
<1>2. Features!TypeOK
  BY <1>1, BuildFacts DEF Features!Init, Features!TypeOK
<1> QED
  BY <1>1, <1>2 DEF BuildInv, Features!Init, Features!Stored

\* The feature set readers get, whatever was interrupted or configured before.
LEMMA BuildStep ==
  ASSUME StoreInv, BuildInv, [PipelineNext]_pipelineVars
  PROVE  BuildInv'
<1>1. [Features!Next]_buildVars
  BY PipelineStepsAreBuildSteps
<1> QED
  BY <1>1, StartWriteStep, WritePartStep, ManifestStep, InterruptionStep DEF Features!Next

LEMMA BuildsAreKept == PipelineSpec => []BuildInv
BY BuildStep, BuildStart, StoresAreKept, PTL DEF PipelineSpec

\* A feature set nobody has finished writing is refused, and one that is read has
\* every month of the build in its manifest (features/store.py).
THEOREM ReadSetsAreAlwaysWhole == PipelineSpec => []ReadSetsAreWhole
<1>1. BuildInv => ReadSetsAreWhole
  BY DEF BuildInv, ReadSetsAreWhole, Features!UnfinishedIsRefused, Features!ReadIsComplete,
         Features!ReadError
<1> QED
  BY <1>1, BuildsAreKept, PTL

\* The command line drives the feature store as its own specification allows.
THEOREM PipelineIsFeatureStore == PipelineSpec => Features!Spec
<1>1. PipelineInit => Features!Init
  BY DEF PipelineInit
<1>2. StoreInv /\ [PipelineNext]_pipelineVars => [Features!Next]_(Features!vars)
  <2>1. Features!vars = buildVars /\ Features!vars' = buildVars'
    BY DEF Features!vars, buildVars
  <2> QED
    BY <2>1, PipelineStepsAreBuildSteps
<1> QED
  BY <1>1, <1>2, StoresAreKept, PTL DEF PipelineSpec, Features!Spec

-----------------------------------------------------------------------------
(***************************************************************************)
(* The two stores together: what is pending, and what that says of what is *)
(* on disk.                                                                *)
(***************************************************************************)
MonthsOf(v) == {bar.month : bar \in source.content[v][Base]}

PendingInv ==
  /\ pending \in {"ingest", "build", "nothing"}
  /\ stage # "idle" => pending = "ingest" /\ job = None
  /\ pending # "ingest" => \/ version = latest /\ complete
                           \/ version = 0 /\ pending = "build" /\ job = None

\* A running build is of bars there still are, and, if nothing is to be ingested
\* before it, of all the newest.
JobInv ==
  job # None =>
    /\ source.grows /\ pending # "nothing" /\ job.months \subseteq MonthsOf(latest)
    /\ pending = "build" => job.of = latest /\ job.months = MonthsOf(latest)

RowsInv ==
  source.grows => \A fs \in Features!FsVersions : Features!Stored(fs) \subseteq MonthsOf(latest)

CurrentInv == PendingInv /\ JobInv /\ RowsInv /\ SettledIsCurrent

\* A source that grows loses no month.
LEMMA MonthsGrow ==
  ASSUME StoreInv, source.grows, NEW v \in DOMAIN source.content,
         NEW w \in DOMAIN source.content, v <= w, NEW table \in ToSet(Tables),
         NEW bar \in source.content[v][table]
  PROVE  \E kept \in source.content[w][table] : kept.month = bar.month
<1>1. source.overwrite /\ w \in v .. Len(source.content)
  BY StoreAssumption, Contents DEF StoreAssumption, StoreInv, Shape
<1>2. PICK kept \in source.content[w][table] : kept.at = bar.at
  BY <1>1, Contents DEF StoreInv, StampsAreKept
<1>3. kept.month = bar.month
  BY <1>2, Contents DEF StoreInv, StampsAreKeys
<1> QED
  BY <1>3

\* After a complete ingestion of a source that grows, every table is read and
\* gives the bars of the version ingested, all of them and nothing else.
LEMMA GrowingIsRead ==
  ASSUME StoreInv, source.grows, complete, NEW table \in ToSet(Tables)
  PROVE  ReadBars(table).error = "none" /\ ReadBars(table).bars = source.content[version][table]
<1>1. source.overwrite /\ version \in DOMAIN source.content /\ version \in Nat
      /\ 1 .. version \subseteq DOMAIN source.content
  BY StoreAssumption, CompleteIsDelivered, Contents DEF StoreAssumption, StoreInv, Shape
<1>2. ASSUME NEW v \in 1 .. version, NEW month \in Months, Chunk(v, <<table, month>>) # {}
      PROVE  month \notin Gone(table)
  <2>1. PICK bar \in source.content[v][table] : bar.month = month
    BY <1>2 DEF Chunk
  <2>2. PICK kept \in source.content[version][table] : kept.month = month
    BY <1>1, <2>1, MonthsGrow
  <2> QED
    BY <2>2 DEF Gone, Chunk
<1>3. \A month \in Gone(table) : tmp[<<table, month>>] = Absent
  <2>1. \A month \in Months : <<table, month>> \in Files
    BY DEF Files
  <2> QED
    BY <1>2, <2>1 DEF StoreInv, Origin, Gone
<1>4. /\ ReadBars(table).error = "none"
      /\ {bar \in ReadBars(table).bars : bar.month \notin Gone(table)}
           = source.content[version][table]
  BY <1>1, <1>3, ReadWhenComplete DEF CompleteIngestIsRead
<1>5. ASSUME NEW bar \in ReadBars(table).bars
      PROVE  bar.month \notin Gone(table)
  <2>1. PICK v \in 1 .. version : bar \in source.content[v][table]
    BY ReadIsOfSource
  <2>2. bar.month \in Months /\ bar \in Chunk(v, <<table, bar.month>>)
    BY <1>1, <2>1, Contents DEF StoreInv, Chunk
  <2> QED
    BY <1>2, <2>2
<1> QED
  BY <1>4, <1>5

\* A command that goes on has read all its tables.
LEMMA LoadedIsRead ==
  ASSUME NEW config \in Configs, LoadError(config) = "none", NEW table \in TablesOf(config)
  PROVE  ReadBars(table).error = "none"
<1> DEFINE unread == Unread(config)
           places == {Position(t) : t \in unread}
<1>1. unread \subseteq ToSet(Tables)
  BY PipelineAssumption, Positions DEF PipelineAssumption, Unread, TablesOf, Base
<1>2. ASSUME unread # {} PROVE FALSE
  <2>1. places \subseteq Nat /\ places # {}
    BY <1>1, <1>2, Positions
  <2>2. PICK place \in places : \A other \in places : place <= other
    BY <2>1, LeastNumber
  <2>3. \E t \in unread : \A other \in unread : Position(t) <= Position(other)
    BY <2>2
  <2>4. PICK t \in unread : LoadError(config) = ReadBars(t).error
    BY <1>2, <2>3 DEF LoadError
  <2> QED
    BY <2>4 DEF Unread
<1> QED
  BY <1>2 DEF Unread

\* A build that begins with everything ingested is of the newest bars.
LEMMA BuildIsOfLatest ==
  ASSUME StoreInv, LatestInv, source.grows, complete, version = latest, NEW config \in Configs
  PROVE  BuildOf(config).of = latest /\ BuildOf(config).months = MonthsOf(latest)
<1>1. TablesOf(config) \subseteq ToSet(Tables)
  BY PipelineAssumption, Positions DEF PipelineAssumption, TablesOf, Base
<1>2. \A table \in TablesOf(config) : ReadBars(table).bars = source.content[version][table]
  BY <1>1, GrowingIsRead
<1> DEFINE whole == {v \in 1 .. version : \A table \in TablesOf(config) :
                       ReadBars(table).bars = source.content[v][table]}
<1>3. version \in Nat /\ version \in whole /\ whole \subseteq 1 .. version
  <2>1. version \in 1 .. version
    BY Contents DEF StoreInv, Progress
  <2> QED
    BY <1>2, <2>1
<1>4. VersionRead(config) = IF whole = {} THEN 0 ELSE Max(whole)
  BY DEF VersionRead
<1> HIDE DEF whole
<1>5. Max(whole) \in whole /\ version <= Max(whole)
  BY <1>3, GreatestNumber
<1>6. VersionRead(config) = version
  <2>1. Max(whole) \in 1 .. version
    BY <1>3, <1>5
  <2>2. Max(whole) = version
    BY <1>3, <1>5, <2>1
  <2> QED
    BY <1>3, <1>4, <2>2
<1>7. ReadBars(Base).bars = source.content[version][Base]
  BY <1>2 DEF TablesOf, Base
<1> QED
  BY <1>6, <1>7 DEF BuildOf, MonthsOf, Base

\* Before anything was ingested nothing can be read of a source that grows.
LEMMA NothingIsLoaded ==
  ASSUME StoreInv, source.grows, version = 0, NEW config \in Configs
  PROVE  LoadError(config) # "none"
<1>1. source.overwrite
  BY StoreAssumption DEF StoreAssumption, StoreInv, Shape
<1>2. \A file \in Files : part[file] = Absent /\ tmp[file] = Absent
  BY <1>1 DEF StoreInv, PartitionsAreWhole, Vintage, Origin
<1>3. Scanned(Base) = {}
  BY <1>2, Positions DEF Scanned, Files
<1>4. ReadBars(Base).error # "none"
  BY <1>3 DEF ReadBars
<1> QED
  BY <1>4, LoadedIsRead DEF TablesOf, Base

\* A build that begins is of months the newest version has.
LEMMA BuildIsOfMonthsThereAre ==
  ASSUME StoreInv, LatestInv, source.grows, NEW config \in Configs
  PROVE  BuildOf(config).months \subseteq MonthsOf(latest)
<1>1. ASSUME NEW bar \in ReadBars(Base).bars
      PROVE  bar.month \in MonthsOf(latest)
  <2>1. PICK v \in 1 .. version : bar \in source.content[v][Base]
    BY ReadIsOfSource, Positions
  <2>2. v \in DOMAIN source.content /\ v <= latest
    BY Contents DEF StoreInv, LatestInv
  <2> QED
    BY <2>1, <2>2, MonthsGrow, Positions DEF LatestInv, MonthsOf
<1> QED
  BY <1>1 DEF BuildOf, Base

-----------------------------------------------------------------------------
LEMMA CurrentUnchanged ==
  ASSUME CurrentInv,
         UNCHANGED <<source, latest, rows, manifest>>,
         pending' = "nothing" => pending = "nothing",
         PendingInv', JobInv'
  PROVE  CurrentInv'
<1>1. MonthsOf(latest)' = MonthsOf(latest)
  BY DEF MonthsOf
<1>2. \A fs : /\ Features!Stored(fs)' = Features!Stored(fs)
             /\ Features!RowsOf(fs)' = Features!RowsOf(fs)
  BY DEF Features!Stored, Features!RowsOf
<1>3. RowsInv'
  BY <1>1, <1>2 DEF CurrentInv, RowsInv
<1>4. IsCurrent' = IsCurrent
  BY <1>2 DEF IsCurrent, Features!ReadError
<1> QED
  BY <1>3, <1>4 DEF CurrentInv, SettledIsCurrent

LEMMA IngestCommandStep ==
  ASSUME StoreInv, LatestInv, CurrentInv,
         RunIngest \/ IngestWrites \/ IngestEnds \/ IngestIsInterrupted
  PROVE  CurrentInv'
<1>1. UNCHANGED <<source, latest, rows, manifest, job>> /\ job = None
  BY DEF RunIngest, Idle, StartIngest, IngestWrites, IngestEnds, IngestIsInterrupted, buildVars,
         BeginWrite, EndWrite, Replace, Finish, WriteFails, Kill, CurrentInv, PendingInv,
         StoreInv, Progress
<1>2. JobInv'
  BY <1>1 DEF JobInv
<1>3. PendingInv' /\ pending' # "nothing"
  <2>1. CASE RunIngest
    BY <1>1, <2>1 DEF RunIngest, StartIngest, PendingInv
  <2>2. CASE IngestWrites
    BY <1>1, <2>2 DEF IngestWrites, BeginWrite, EndWrite, Replace, CurrentInv, PendingInv
  <2>3. CASE IngestEnds
    BY <1>1, <2>3 DEF IngestEnds, Finish, CurrentInv, PendingInv
  <2>4. CASE IngestIsInterrupted
    BY <1>1, <2>4 DEF IngestIsInterrupted, WriteFails, Kill, CurrentInv, PendingInv
  <2> QED
    BY <2>1, <2>2, <2>3, <2>4
<1> QED
  BY <1>1, <1>2, <1>3, CurrentUnchanged

LEMMA SourceGrowsStep ==
  ASSUME StoreInv, LatestInv, CurrentInv, SourceGrows
  PROVE  CurrentInv'
<1>1. /\ UNCHANGED <<source, version, stage, complete, rows, manifest, job, months>>
      /\ latest' = latest + 1 /\ pending' = "ingest" /\ latest < Len(source.content)
  BY DEF SourceGrows, vars, buildVars
<1>2. latest \in DOMAIN source.content /\ latest + 1 \in DOMAIN source.content
      /\ latest <= latest + 1
  BY <1>1, Contents DEF StoreInv, LatestInv
<1>3. source.grows => MonthsOf(latest) \subseteq MonthsOf(latest + 1)
  BY <1>2, MonthsGrow, Positions DEF MonthsOf
<1>4. MonthsOf(latest)' = MonthsOf(latest + 1)
  BY <1>1 DEF MonthsOf
<1>5. \A fs : Features!Stored(fs)' = Features!Stored(fs)
  BY <1>1 DEF Features!Stored
<1>6. PendingInv'
  BY <1>1 DEF CurrentInv, PendingInv
<1>7. JobInv'
  BY <1>1, <1>3, <1>4 DEF CurrentInv, JobInv
<1>8. RowsInv'
  BY <1>1, <1>3, <1>4, <1>5 DEF CurrentInv, RowsInv
<1> QED
  BY <1>1, <1>6, <1>7, <1>8 DEF CurrentInv, SettledIsCurrent

LEMMA BuildCommandStep ==
  ASSUME StoreInv, LatestInv, CurrentInv,
         NEW config \in Configs, RunBuild(config) \/ BuildIsRefused(config)
  PROVE  CurrentInv'
<1>1. /\ stage = "idle" /\ job = None /\ source.grows
      /\ UNCHANGED <<source, version, stage, complete, latest, rows, manifest>>
  BY DEF RunBuild, BuildIsRefused, Idle, vars, buildVars, Features!StartWrite
<1>2. CASE BuildIsRefused(config)
  <2>1. job' = job /\ pending' \in {"ingest", pending}
    BY <1>2 DEF BuildIsRefused, buildVars
  <2>2. PendingInv' /\ JobInv'
    BY <1>1, <2>1 DEF CurrentInv, PendingInv, JobInv
  <2> QED
    BY <1>1, <2>1, <2>2, CurrentUnchanged DEF CurrentInv, PendingInv
<1>3. CASE RunBuild(config)
  <2>1. /\ LoadError(config) = "none" /\ job' = BuildOf(config)
        /\ pending' = IF pending = "ingest" THEN "ingest" ELSE "build"
    BY <1>3 DEF RunBuild, Features!StartWrite
  <2>2. version # 0
    BY <1>1, <2>1, NothingIsLoaded
  <2>3. PendingInv'
    <3>1. pending' # "ingest" => version' = latest' /\ complete'
      BY <1>1, <2>1, <2>2 DEF CurrentInv, PendingInv
    <3> QED
      BY <1>1, <2>1, <3>1 DEF PendingInv
  <2>4. pending' = "build" => job'.of = latest /\ job'.months = MonthsOf(latest)
    BY <1>1, <2>1, <2>2, BuildIsOfLatest DEF CurrentInv, PendingInv
  <2>5. JobInv'
    <3>1. MonthsOf(latest)' = MonthsOf(latest)
      BY <1>1 DEF MonthsOf
    <3> QED
      BY <1>1, <2>1, <2>4, <3>1, BuildIsOfMonthsThereAre DEF JobInv
  <2> QED
    BY <1>1, <2>1, <2>3, <2>5, CurrentUnchanged
<1> QED
  BY <1>2, <1>3

LEMMA BuildWorkStep ==
  ASSUME StoreInv, LatestInv, BuildInv, CurrentInv, BuildWrites \/ BuildIsInterrupted
  PROVE  CurrentInv'
<1>1. /\ UNCHANGED <<source, version, stage, complete, latest, pending>>
      /\ job # None /\ job' \in {job, None}
  BY DEF BuildWrites, BuildIsInterrupted, vars, Features!WritePart, Features!OpenManifest,
         Features!WriteFails, Features!Kill
<1>2. MonthsOf(latest)' = MonthsOf(latest)
  BY <1>1 DEF MonthsOf
<1>3. PendingInv' /\ JobInv' /\ pending # "nothing"
  BY <1>1, <1>2 DEF CurrentInv, PendingInv, JobInv
<1>4. RowsInv'
  <2>1. CASE rows' = rows
    BY <1>1, <1>2, <2>1 DEF CurrentInv, RowsInv, Features!Stored
  <2>2. CASE Features!WritePart
    <3>1. /\ job \in Builds /\ months \subseteq Nat /\ months # {} /\ months \subseteq job.months
          /\ rows \in [Features!FsVersions -> [Features!BuildMonths -> Builds \cup {None}]]
      BY <2>2, BuildFacts DEF BuildInv, Features!TypeOK, Features!WritePart
    <3>2. PICK month \in months :
            rows' = [rows EXCEPT ![Features!FsVersion(job)][month] = job]
      <4>1. \E month \in months : \A other \in months : month <= other
        BY <3>1, LeastNumber
      <4> QED
        BY <2>2, <4>1 DEF Features!WritePart
    <3>3. \A fs \in Features!FsVersions : \A m \in Features!BuildMonths :
            m = month \/ rows'[fs][m] = rows[fs][m]
      BY <3>1, <3>2
    <3>4. source.grows => month \in MonthsOf(latest)
      BY <1>1, <3>1, <3>2 DEF CurrentInv, JobInv
    <3> QED
      BY <1>1, <1>2, <3>3, <3>4 DEF CurrentInv, RowsInv, Features!Stored
  <2> QED
    BY <2>1, <2>2 DEF BuildWrites, BuildIsInterrupted, Features!OpenManifest,
                      Features!WriteFails, Features!Kill
<1> QED
  BY <1>1, <1>3, <1>4 DEF CurrentInv, SettledIsCurrent

\* A build that ends with nothing else pending leaves a current feature set.
LEMMA BuildEndsStep ==
  ASSUME StoreInv, LatestInv, BuildInv, CurrentInv, BuildEnds
  PROVE  CurrentInv'
<1>1. /\ UNCHANGED <<source, version, stage, complete, latest, rows, months>> /\ months = {}
      /\ job # None /\ job' = None /\ Features!FillManifest
      /\ pending' = IF pending = "build" /\ job.features = Deployed.features
                        /\ job.columns = Deployed.context THEN "nothing" ELSE pending
  BY DEF BuildEnds, vars, Features!FillManifest
<1>2. MonthsOf(latest)' = MonthsOf(latest) /\ \A fs : Features!Stored(fs)' = Features!Stored(fs)
  BY <1>1 DEF MonthsOf, Features!Stored
<1>3. PendingInv' /\ JobInv' /\ RowsInv'
  BY <1>1, <1>2 DEF CurrentInv, PendingInv, JobInv, RowsInv
<1>4. ASSUME pending' = "nothing" PROVE IsCurrent'
  <2> DEFINE fs == Features!FsVersion(Deployed)
  <2>1. /\ job.of = latest /\ job.months = MonthsOf(latest) /\ source.grows
        /\ job.columns = Deployed.context /\ job.features = fs
    BY <1>1, <1>4 DEF CurrentInv, JobInv, Features!FsVersion
  <2>2. /\ job \in Builds /\ fs \in Features!FsVersions /\ Features!FsVersion(job) = fs
        /\ job.months \subseteq Features!BuildMonths
    BY <1>1, <2>1, BuildFacts DEF BuildInv, Features!TypeOK
  <2>3. \A month \in job.months : rows[fs][month] = job
    BY <1>1, <2>1 DEF BuildInv
  <2>4. Features!Stored(fs) = MonthsOf(latest)
    <3>1. Features!Stored(fs) \subseteq MonthsOf(latest)
      BY <2>1, <2>2 DEF CurrentInv, RowsInv
    <3>2. MonthsOf(latest) \subseteq Features!Stored(fs)
      BY <1>1, <2>1, <2>2, <2>3 DEF Features!Stored
    <3> QED
      BY <3>1, <3>2
  <2>5. MonthsOf(latest) # {}
    <3>1. PICK bar : bar \in source.content[latest][Base]
      BY Contents, Positions DEF StoreInv, LatestInv
    <3> QED
      BY <3>1 DEF MonthsOf
  <2>6. Features!RowsOf(fs) = {job}
    BY <2>1, <2>3, <2>4, <2>5 DEF Features!RowsOf
  <2>7. manifest'[fs] = job
    BY <1>1, <2>2 DEF Features!FillManifest, BuildInv, Features!TypeOK
  <2>8. Features!RowsOf(fs)' = {job}
    BY <1>1, <1>2, <2>6 DEF Features!RowsOf
  <2>9. Features!ReadError(fs)' = "none"
    <3>1. manifest'[fs] \notin {None, TornFile} /\ Features!Stored(fs)' # {}
      BY <1>2, <2>2, <2>4, <2>5, <2>7, BuildFacts
    <3>2. ~\E build, other \in Features!RowsOf(fs)' : build.columns # other.columns
      BY <2>8
    <3>3. ~\E build \in Features!RowsOf(fs)' : build.columns # manifest'[fs].columns
      BY <2>7, <2>8
    <3> QED
      BY <3>1, <3>2, <3>3 DEF Features!ReadError
  <2> QED
    BY <1>1, <1>2, <2>1, <2>4, <2>8, <2>9 DEF IsCurrent, MonthsOf, Base
<1> QED
  BY <1>3, <1>4 DEF CurrentInv, SettledIsCurrent

LEMMA CurrentStep ==
  ASSUME StoreInv, LatestInv, BuildInv, CurrentInv, [PipelineNext]_pipelineVars
  PROVE  CurrentInv'
<1>1. CASE SourceGrows
  BY <1>1, SourceGrowsStep
<1>2. CASE RunIngest \/ IngestWrites \/ IngestEnds \/ IngestIsInterrupted
  BY <1>2, IngestCommandStep
<1>3. CASE \E config \in Configs : RunBuild(config) \/ BuildIsRefused(config)
  BY <1>3, BuildCommandStep
<1>4. CASE BuildWrites \/ BuildIsInterrupted
  BY <1>4, BuildWorkStep
<1>5. CASE BuildEnds
  BY <1>5, BuildEndsStep
<1>6. CASE UNCHANGED pipelineVars
  <2>1. UNCHANGED <<source, version, stage, complete, latest, rows, manifest, job, pending>>
    BY <1>6 DEF pipelineVars, vars, buildVars
  <2>2. PendingInv' /\ JobInv'
    BY <2>1 DEF CurrentInv, PendingInv, JobInv, MonthsOf
  <2> QED
    BY <2>1, <2>2, CurrentUnchanged
<1> QED
  BY <1>1, <1>2, <1>3, <1>4, <1>5, <1>6 DEF PipelineNext, Command, Work, Interruption

LEMMA CurrentStart == PipelineInit => CurrentInv
<1> SUFFICES ASSUME PipelineInit PROVE CurrentInv
  OBVIOUS
<1>1. /\ version = 0 /\ stage = "idle" /\ pending = "build" /\ job = None
      /\ rows = [fs \in Features!FsVersions |-> [month \in Features!BuildMonths |-> None]]
  BY DEF PipelineInit, Init, Features!Init
<1>2. \A fs \in Features!FsVersions : Features!Stored(fs) = {}
  BY <1>1 DEF Features!Stored
<1> QED
  BY <1>1, <1>2 DEF CurrentInv, PendingInv, JobInv, RowsInv, SettledIsCurrent

\* When every command that was started or asked for has been run to its end, the
\* wanted feature set is read and is of the newest version of the source in every
\* row (cli.py), whatever failed or was killed on the way and however often.
THEOREM SettledIsAlwaysCurrent == PipelineSpec => []SettledIsCurrent
<1>1. CurrentInv => SettledIsCurrent
  BY DEF CurrentInv
<1>2. PipelineSpec => []CurrentInv
  BY CurrentStart, CurrentStep, StoresAreKept, BuildsAreKept, PTL DEF PipelineSpec
<1> QED
  BY <1>1, <1>2, PTL
=============================================================================

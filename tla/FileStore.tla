----------------------------- MODULE FileStore ------------------------------
(***************************************************************************)
(* What a user of pfar (src/tools/pfar.c) relies on: an image is a store   *)
(* of named files with room for so many files and sectors.  A command      *)
(* works on a copy and changes the store by all it was asked to, or, at    *)
(* the first thing that cannot be done, not at all.                        *)
(***************************************************************************)
EXTENDS Integers, Sequences, FiniteSets

CONSTANTS Names,       \* the names a file may have
          Contents,    \* the contents it may have, sequences of bytes
          Asked,       \* the names and
          Given,       \* the contents commands are given, right or wrong
          SectorSize, MaxFiles, Capacity   \* bytes, files, sectors

VARIABLES disk,  \* the store, a function from names to contents
          work,  \* the copy a command works on
          said   \* what was asked last, and the answer

Sectors(content) == (Len(content) + SectorSize - 1) \div SectorSize
\* The sectors that files take, those of a file counted from 1.
Used(files) == Cardinality(UNION {{n} \X (1 .. Sectors(files[n])) : n \in DOMAIN files})
Room(files) == Used(files) <= Capacity /\ Cardinality(DOMAIN files) <= MaxFiles

Without(files, n) == [x \in DOMAIN files \ {n} |-> files[x]]
With(files, n, content) == [x \in DOMAIN files \cup {n} |-> IF x = n THEN content ELSE files[x]]

Says(asked, ok, answer) == said' = [asked |-> asked, ok |-> ok, answer |-> answer]

Init == work = disk /\ said = [asked |-> << >>, ok |-> TRUE, answer |-> << >>]

\* A file comes in, under a new name or instead of an older one.
Put(n, content) ==
  LET files == With(work, n, content)
      done == n \in Names /\ content \in Contents /\ Room(files)
  IN /\ said'.asked = <<"put", n, content>>
     /\ Says(<<"put", n, content>>, done, << >>)
     /\ work' = IF done THEN files ELSE disk
     /\ UNCHANGED disk

Remove(n) ==
  LET files == work IN
  /\ said'.asked = <<"remove", n>>
  /\ Says(<<"remove", n>>, n \in DOMAIN files, << >>)
  /\ work' = IF n \in DOMAIN files THEN Without(files, n) ELSE disk
  /\ UNCHANGED disk

Get(n) ==
  LET files == work IN
  /\ said'.asked = <<"get", n>>
  /\ Says(<<"get", n>>, n \in DOMAIN files, IF n \in DOMAIN files THEN files[n] ELSE << >>)
  /\ UNCHANGED <<disk, work>>

List ==
  LET files == work IN
  /\ said'.asked = <<"list">>
  /\ Says(<<"list">>, TRUE, <<{<<n, Len(files[n])>> : n \in DOMAIN files}, Capacity - Used(files)>>)
  /\ UNCHANGED <<disk, work>>

Commit == disk' = work /\ UNCHANGED <<work, said>>

Next ==
  \/ \E n \in Asked : Remove(n) \/ Get(n) \/ \E c \in Given : Put(n, c)
  \/ List
  \/ Commit

Spec == Init /\ [][Next]_<<disk, work, said>>
=============================================================================

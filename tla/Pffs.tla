-------------------------------- MODULE Pffs --------------------------------
(***************************************************************************)
(* The P/ECE flash file system inside a PFI image, as the host tools       *)
(* change it (src/tools/pffs.c): a directory, a table with the next sector *)
(* of every sector, and the sectors.                                       *)
(*                                                                         *)
(* An image is [sig, sectors, dir, fat, data].  A name is the tuple of the *)
(* lengths of its parts between dots, of legal characters each; a content  *)
(* is a sequence of bytes.                                                 *)
(***************************************************************************)
EXTENDS Integers, FiniteSets, SequencesExt, FiniteSetsExt

CONSTANTS SECTOR,          \* bytes in a sector
          MAXDIR, MAXFAT,
          ImageSectors     \* sectors between pffs_top and pffs_end

FAT_FREE == 65535
FAT_END == 61166
FAT_SYSTEM == 52428

\* No sector has a number that means something else in the table.
ASSUME PffsAssumption ==
  /\ {SECTOR, MAXDIR, ImageSectors, MAXFAT} \subseteq Nat \ {0}
  /\ MAXFAT <= FAT_SYSTEM

NoFile == <<-1>>           \* a path that cannot be opened
Unused == [name |-> <<255>>, chain |-> FAT_FREE, size |-> -1]   \* memset(0xff)
InUse(d) == d.name # Unused.name

MaxFat == IF ImageSectors > MAXFAT THEN MAXFAT ELSE ImageSectors

\* An image the device has formatted: the first sector is the master block.
Formatted ==
  [sig |-> TRUE,
   dir |-> [i \in 1 .. MAXDIR |-> Unused],
   fat |-> [n \in 0 .. MAXFAT - 1 |-> IF n = 0 THEN FAT_SYSTEM ELSE FAT_FREE],
   data |-> [n \in 0 .. ImageSectors - 1 |-> [i \in 1 .. SECTOR |-> 255]]]

\* CheckFileName: [a-z0-9_]{1,8}([.][a-z0-9_]{1,3})?
ValidName(n) ==
  Len(n) \in {1, 2} /\ n[1] \in 1 .. 8 /\ (Len(n) = 2 => n[2] \in 1 .. 3)

\* The entries in use, and where a name is (0: nowhere).
Dir(img) == {img.dir[i] : i \in {j \in DOMAIN img.dir : InUse(img.dir[j])}}
FirstOf(S) == IF S = {} THEN 0 ELSE Min(S)
Find(img, n) == IF ValidName(n) THEN FirstOf({i \in DOMAIN img.dir : img.dir[i].name = n}) ELSE 0
FindFreeDir(img) == FirstOf({i \in DOMAIN img.dir : img.dir[i].name = Unused.name})

Free(img) == Cardinality({n \in 0 .. MaxFat - 1 : img.fat[n] = FAT_FREE})

SectorsOf(size) == (size + SECTOR - 1) \div SECTOR

-----------------------------------------------------------------------------
(* Chains.  Links are the table with the entry's own chain at -1.          *)

Links(img, chain) == [l \in -1 .. MAXFAT - 1 |-> IF l = -1 THEN chain ELSE img.fat[l]]

\* The link from and the n sectors behind it.
Follow(links, l) == IF l \in DOMAIN links THEN links[l] ELSE FAT_END
Walk(links, from, n) ==
  LET walk[k \in 0 .. n] == IF k = 0 THEN from ELSE Follow(links, walk[k - 1]) IN walk

\* The table without the n sectors behind from, or as many as there are.
Freed(links, from, n) ==
  LET walk == Walk(links, from, n)
  IN [l \in DOMAIN links |-> IF \E k \in 1 .. n : walk[k] = l THEN FAT_FREE ELSE links[l]]

-----------------------------------------------------------------------------
(* AllocateSectors: "at" is what the pointer chain points to.              *)

GetFreeFAT(links, start) ==
  LET free == {n \in start .. MaxFat - 1 : links[n] = FAT_FREE}
  IN IF free = {} THEN -1 ELSE Min(free)

\* A sector: the next of the old chain, or a free one.
Take(st) ==
  LET n == st.links[st.at]
      fresh == n \in {FAT_FREE, FAT_END}
      got == IF fresh THEN GetFreeFAT(st.links, st.nn) ELSE n
  IN IF ~st.ok \/ got < 0 THEN [st EXCEPT !.ok = FALSE]
     ELSE [st EXCEPT !.links[st.at] = got, !.at = got, !.nn = IF fresh THEN got + 1 ELSE @]

Taken(links, nsectors) ==
  LET after[k \in 0 .. nsectors] ==
        IF k = 0 THEN [ok |-> TRUE, links |-> links, at |-> -1, nn |-> 0] ELSE Take(after[k - 1])
  IN after[nsectors]

\* Mutant: the rest of a longer old file is not given back.
AllocateSectors_kept(img, chain, nsectors, old) ==
  LET taken == Taken(Links(img, chain), nsectors)
  IN [ok |-> taken.ok, links |-> [taken.links EXCEPT ![taken.at] = FAT_END]]

AllocateSectors(img, chain, nsectors, old) ==
  LET taken == Taken(Links(img, chain), nsectors)
      rest == Freed(taken.links, taken.at, old - nsectors)
  IN [ok |-> taken.ok, links |-> [rest EXCEPT ![taken.at] = FAT_END]]

-----------------------------------------------------------------------------
(* Reading and writing files.                                              *)

\* fread leaves what is behind the end of the file in its last sector.
WriteFileToSectors(img, links, content) ==
  LET nsectors == SectorsOf(Len(content))
      walk == Walk(links, -1, nsectors)
      Put(k, old) == [b \in 1 .. SECTOR |-> LET c == (k - 1) * SECTOR + b
                                            IN IF c <= Len(content) THEN content[c] ELSE old[b]]
  IN [s \in DOMAIN img.data |->
        IF \E k \in 1 .. nsectors : walk[k] = s
        THEN Put(CHOOSE k \in 1 .. nsectors : walk[k] = s, img.data[s]) ELSE img.data[s]]

Changed(img) == [ok |-> TRUE, img |-> img]
Refused(img) == [ok |-> FALSE, img |-> img]

\* On the copy new_msb of the master block, which is put back at the end only.
AddFileAs(img, n, content) ==
  LET found == Find(img, n)
      i == IF found = 0 THEN FindFreeDir(img) ELSE found
      old == IF found = 0 THEN [name |-> n, chain |-> FAT_FREE, size |-> 0] ELSE img.dir[i]
      got == AllocateSectors(img, old.chain, SectorsOf(Len(content)), SectorsOf(old.size))
  IN IF ~ValidName(n) \/ content = NoFile \/ i = 0 \/ ~got.ok THEN Refused(img)
     ELSE Changed([img EXCEPT !.dir[i] = [name |-> n, chain |-> got.links[-1], size |-> Len(content)],
                           !.fat = [l \in DOMAIN img.fat |-> got.links[l]],
                           !.data = WriteFileToSectors(img, got.links, content)])

\* The n sectors of an entry at most go, and the entry.
Unlinked(img, i, n) ==
  LET links == Freed(Links(img, img.dir[i].chain), -1, n)
  IN [img EXCEPT !.dir[i] = Unused, !.fat = [l \in DOMAIN img.fat |-> links[l]]]

\* Mutant: only the first sector is given back.
DeleteFile_first(img, n) ==
  LET i == Find(img, n) IN IF i = 0 THEN Refused(img) ELSE Changed(Unlinked(img, i, 1))
DeleteFile(img, n) ==
  LET i == Find(img, n) IN IF i = 0 THEN Refused(img) ELSE Changed(Unlinked(img, i, MAXFAT))

\* The bytes of the file's chain, as many as its size says and the chain has.
ExtractFile(img, d) ==
  LET walk == Walk(Links(img, d.chain), -1, SectorsOf(d.size))
      Sector(b) == ((b - 1) \div SECTOR) + 1
      held == {b \in 1 .. d.size : \A k \in 1 .. Sector(b) : walk[k] \in DOMAIN img.data}
  IN [b \in held |-> img.data[walk[Sector(b)]][((b - 1) % SECTOR) + 1]]
=============================================================================

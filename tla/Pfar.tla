-------------------------------- MODULE Pfar --------------------------------
(***************************************************************************)
(* src/tools/pfar.c, the archiver of a PFI image's file system: a command  *)
(* reads the image, does what it was asked to file by file, and writes the *)
(* image back at the end if all of it went through.                        *)
(***************************************************************************)
EXTENDS Boot, Pffs

CONSTANTS Asked,   \* names on command lines
          Proper,  \* those of them that a file may have
          Paths    \* what the files on the host hold: contents, or NoFile

\* CheckFileName tells the proper names from the others.
ASSUME PfarAssumption ==
  /\ Proper = {n \in Asked : ValidName(n)}
  /\ \A content \in Paths : content \in Seq(Range(content))

VARIABLES
  file,     \* the image on the host's disk
  pfi,      \* the copy in memory; between commands, what the next one reads
  job,      \* the command running: its letter and the files done, or NoJob
  said,     \* what was asked last, and what the command printed
  calls     \* bound: commands so far

pfarVars == <<file, pfi, job, said, calls>>

NoJob == [action |-> "", nfiles |-> 0]
Says(asked, ok, answer) == said' = [asked |-> asked, ok |-> ok, answer |-> answer]

\* main: PFIOpen reads the image, or refuses it.
OpenImage ==
  /\ at = "tool" /\ job = NoJob /\ calls < host.calls
  /\ calls' = calls + 1
  /\ IF file.sig
     THEN /\ \E action \in host.actions : job' = [NoJob EXCEPT !.action = action]
          /\ UNCHANGED <<at, code>>
     ELSE Exit(1) /\ UNCHANGED job
  /\ UNCHANGED <<host, m, total, tickVars, file, pfi, said>>

\* -A takes one file, the others as many as there are arguments; bound:
\* host.args.
Running(action) ==
  at = "tool" /\ job.action = action /\ job.nfiles < (IF action = "A" THEN 1 ELSE host.args)

\* A file that fails ends the command; the image in memory is given up.
Change(result, asked) ==
  /\ pfi' = IF result.ok THEN result.img ELSE file
  /\ job' = IF result.ok THEN [job EXCEPT !.nfiles = @ + 1] ELSE NoJob
  /\ Says(asked, result.ok, << >>)
  /\ UNCHANGED <<baseVars, file, calls>>

AddFile ==
  /\ Running("a") \/ Running("A")
  /\ \E n \in Asked, content \in Paths : Change(AddFileAs(pfi, n, content), <<"put", n, content>>)

DelFile ==
  /\ Running("d")
  /\ \E n \in Asked : Change(DeleteFile(pfi, n), <<"remove", n>>)

\* A name that is not there is skipped.
Extract ==
  /\ Running("e")
  /\ \E n \in Asked :
       LET i == Find(pfi, n)
       IN Says(<<"get", n>>, i # 0, IF i = 0 THEN << >> ELSE ExtractFile(pfi, pfi.dir[i]))
  /\ UNCHANGED <<baseVars, file, pfi, job, calls>>

DumpDir ==
  /\ Running("l")
  /\ Says(<<"list">>, TRUE, <<{<<d.name, d.size>> : d \in Dir(pfi)}, Free(pfi)>>)
  /\ job' = NoJob
  /\ UNCHANGED <<baseVars, file, pfi, calls>>

\* No more arguments: PFISave if a file was changed.
EndCommand ==
  /\ at = "tool" /\ job.action \in {"a", "A", "d", "e"} /\ (job.action = "A" => job.nfiles = 1)
  /\ file' = IF job.nfiles > 0 THEN pfi ELSE file
  /\ job' = NoJob
  /\ UNCHANGED <<baseVars, pfi, said, calls>>

LastCommand ==
  /\ at = "tool" /\ job = NoJob /\ calls = host.calls
  /\ Exit(0)
  /\ UNCHANGED <<host, m, total, tickVars, pfarVars>>

PfarStep == OpenImage \/ AddFile \/ DelFile \/ Extract \/ DumpDir \/ EndCommand \/ LastCommand

PfarInit ==
  /\ file = IF Kind("pfar") THEN [Formatted EXCEPT !.sig = host.image.sig] ELSE Formatted
  /\ pfi = file /\ job = NoJob /\ calls = 0
  /\ said = [asked |-> << >>, ok |-> TRUE, answer |-> << >>]

-----------------------------------------------------------------------------
(* The file store a user sees.                                             *)

FilesOf(img) ==
  [n \in {d.name : d \in Dir(img)} |-> ExtractFile(img, img.dir[Find(img, n)])]

Files == INSTANCE FileStore WITH
  Names <- Proper, Contents <- Paths \ {NoFile}, Given <- Paths,
  SectorSize <- SECTOR, MaxFiles <- MAXDIR, Capacity <- MaxFat - 1,
  disk <- FilesOf(file), work <- FilesOf(pfi)

\* Whatever the order in which files of any size come, grow, shrink and go,
\* the image is a store of named files: each reads back byte for byte, a
\* shared, lost or doubled sector never shows in a file or in the room that is
\* left, a request is refused only if the store has no room or no such file,
\* and a command takes effect with all its files or not at all.
ImplementsFileStore == Files!Spec
=============================================================================

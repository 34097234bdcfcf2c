-------------------------------- MODULE Migration ------------------------------
(***************************************************************************)
(* The vendored script migrate-imports.js, which rewrites the import paths *)
(* of the Solidity files below the paths it is given. It lists the files   *)
(* breadth first, then reads each file, computes its new text, and writes  *)
(* it if it differs: writeFile empties the file when it opens it and then  *)
(* writes the text piece by piece. The script may be killed, or end by an  *)
(* error, anywhere, and may be run again.                                  *)
(*                                                                         *)
(* Of a file's text only the imports are kept, in their order: a path and  *)
(* whether it is the one of the upgradeable package. The end of a text     *)
(* that is not written yet holds the imports that are not there yet; one   *)
(* cut in the middle is none.                                              *)
(***************************************************************************)
EXTENDS Naturals, SequencesExt

CONSTANTS
    Arguments,  \* the paths the script is run with, a sequence
    ReadDir,    \* what each directory holds: [directories -> sequences]
    Solidity,   \* the files whose name ends in .sol
    ImportPaths, \* the paths there are
    pathUpdates, \* the table: a sequence of old paths and their new ones
    Contents,   \* what such a file may hold
    Unread      \* no text

VARIABLES
    disk,     \* disk[f], the imports of file f
    original, \* the disk before the first run (read by properties only)
    queue,    \* listFilesRecursively's queue
    files,    \* the files it has found
    next,     \* the place in files of the file being updated
    text,     \* its new text, once it is read and differs, or Unread
    updatedFiles,
    phase,    \* "listing", "updating", "writing" or "ended"
    cut       \* the files in whose write a run ended (read by properties only)

migrationVars ==
    <<disk, original, queue, files, next, text, updatedFiles, phase, cut>>

Plain(path) == [path |-> path, upgradeable |-> FALSE]
Upgradeable(path) == [path |-> path, upgradeable |-> TRUE]

Imports == [path : ImportPaths, upgradeable : BOOLEAN]

\* The keys of the table are distinct, and no new path is an old one.
ASSUME PathUpdatesAssumption ==
    /\ pathUpdates \in Seq([old : ImportPaths, new : ImportPaths])
    /\ \A u, v \in ToSet(pathUpdates) : /\ u.old = v.old => u = v
                                        /\ u.new # v.old

ASSUME ContentsAssumption == Contents \subseteq Seq(Imports)

--------------------------------------------------------------------------------

\* A slip: the package before the path does not count.
ReplaceFirstOfEither(content, from, to) ==
    LET found == {i \in 1..Len(content) : content[i].path = from.path}
    IN  IF found = {} THEN content
        ELSE [content EXCEPT ![CHOOSE i \in found : \A j \in found : i <= j] = to]

\* JavaScript's replace with a string replaces the first occurrence alone.
ReplaceFirst(content, from, to) ==
    LET found == {i \in 1..Len(content) : content[i] = from}
    IN  IF found = {} THEN content
        ELSE [content EXCEPT ![CHOOSE i \in found : \A j \in found : i <= j] = to]

\* A slip: the upgradeable package is left out.
UpdatePathPlain(u) ==
    [source \in Seq(Imports) |->
        ReplaceFirst(source, Plain(u.old), Plain(u.new))]

\* One round of updateImportPaths' loop over the table. (A function of the
\* text: TLC evaluates the argument of a function first, and the table is long.)
UpdatePath(u) ==
    [source \in Seq(Imports) |->
        ReplaceFirst(ReplaceFirst(source, Plain(u.old), Plain(u.new)),
                     Upgradeable(u.old), Upgradeable(u.new))]

updateImportPaths(source) ==
    LET after[i \in 0..Len(pathUpdates)] ==
            IF i = 0 THEN source ELSE UpdatePath(pathUpdates[i])[after[i - 1]]
    IN  after[Len(pathUpdates)]

--------------------------------------------------------------------------------

\* What a run of the script begins with.
Starts ==
    /\ queue' = Arguments
    /\ files' = << >>
    /\ next' = 1
    /\ text' = Unread
    /\ updatedFiles' = << >>
    /\ phase' = "listing"

MigrationInit ==
    /\ disk \in [Solidity -> Contents]
    /\ original = disk
    /\ queue = Arguments
    /\ files = << >>
    /\ next = 1
    /\ text = Unread
    /\ updatedFiles = << >>
    /\ phase = "listing"
    /\ cut = {}

\* One round of listFilesRecursively.
ListNext ==
    /\ phase = "listing" /\ queue # << >>
    /\ LET top == Head(queue)
       IN  IF top \in DOMAIN ReadDir
           THEN /\ queue' = Tail(queue) \o ReadDir[top]
                /\ UNCHANGED files
           ELSE /\ queue' = Tail(queue)
                /\ files' = IF top \in Solidity THEN Append(files, top) ELSE files
    /\ UNCHANGED <<disk, original, next, text, updatedFiles, phase, cut>>

ListingEnds ==
    /\ phase = "listing" /\ queue = << >>
    /\ phase' = "updating"
    /\ UNCHANGED <<disk, original, queue, files, next, text, updatedFiles, cut>>

\* updateFile up to its comparison: a file that would not change is passed.
ReadFile ==
    /\ phase = "updating" /\ next <= Len(files) /\ text = Unread
    /\ LET content == disk[files[next]]
           updatedContent == updateImportPaths(content)
       IN  IF updatedContent # content
           THEN text' = updatedContent /\ UNCHANGED next
           ELSE next' = next + 1 /\ UNCHANGED text
    /\ UNCHANGED <<disk, original, queue, files, updatedFiles, phase, cut>>

\* writeFile opens the file, which empties it.
OpenFile ==
    /\ phase = "updating" /\ text # Unread
    /\ disk' = [disk EXCEPT ![files[next]] = << >>]
    /\ phase' = "writing"
    /\ UNCHANGED <<original, queue, files, next, text, updatedFiles, cut>>

\* Some more of the text reaches the disk, or all that is left of it.
WriteChunk ==
    /\ phase = "writing"
    /\ \E n \in Len(disk[files[next]]) + 1 .. Len(text) :
           disk' = [disk EXCEPT ![files[next]] = SubSeq(text, 1, n)]
    /\ UNCHANGED <<original, queue, files, next, text, updatedFiles, phase, cut>>

\* writeFile returns, and with it updateFile; main notes the file.
WriteFile ==
    /\ phase = "writing" /\ disk[files[next]] = text
    /\ updatedFiles' = Append(updatedFiles, files[next])
    /\ next' = next + 1
    /\ text' = Unread
    /\ phase' = "updating"
    /\ UNCHANGED <<disk, original, queue, files, cut>>

\* main prints updatedFiles.
RunEnds ==
    /\ phase = "updating" /\ next > Len(files)
    /\ phase' = "ended"
    /\ UNCHANGED <<disk, original, queue, files, next, text, updatedFiles, cut>>

\* The script is killed, fails or has ended, and is run again.
RunAgain ==
    /\ Starts
    /\ cut' = IF phase = "writing" /\ disk[files[next]] # text
              THEN cut \cup {files[next]} ELSE cut
    /\ UNCHANGED <<disk, original>>

MigrationNext ==
    \/ ListNext \/ ListingEnds \/ ReadFile
    \/ OpenFile \/ WriteChunk \/ WriteFile
    \/ RunEnds \/ RunAgain

MigrationSpec == MigrationInit /\ [][MigrationNext]_migrationVars

--------------------------------------------------------------------------------

Outdated(import) == \E u \in ToSet(pathUpdates) : u.old = import.path

Updated(import) ==
    LET u == CHOOSE u \in ToSet(pathUpdates) : u.old = import.path
    IN  [import EXCEPT !.path = u.new]

Places(content, import) == {i \in 1..Len(content) : content[i] = import}

BeingWritten(f) == phase = "writing" /\ f = files[next]

\* However often the script is cut short and run again, a file's imports are
\* the ones it had at first or what the table makes of those, each in its
\* place: none gets the other package's path or is moved on a second time.
\* All of them are there but in a file whose own write is under way or was
\* cut short; that file has lost the last of them, and no other any.
ImportsKept ==
    \A f \in Solidity :
        /\ Len(disk[f]) <= Len(original[f])
        /\ Len(disk[f]) < Len(original[f]) => BeingWritten(f) \/ f \in cut
        /\ \A i \in 1..Len(disk[f]) :
               \/ disk[f][i] = original[f][i]
               \/ /\ Outdated(original[f][i])
                  /\ disk[f][i] = Updated(original[f][i])

\* A run that reaches its end, whatever runs were cut short before it, leaves
\* an old path in a file it was to update only where the file had it more
\* than once.
RunMigrates ==
    phase = "ended" =>
        \A f \in ToSet(files) : \A i \in 1..Len(disk[f]) :
            Outdated(disk[f][i]) =>
                Cardinality(Places(original[f], disk[f][i])) > 1
================================================================================
